---- MODULE Spec2Model ----
(***************************************************************************)
(* Model of the benchmark execution and session engine of test-api:        *)
(*   - ApacheBenchmarkRunner (server/src/apache-benchmark.ts): validation, *)
(*     command building, the spawned `ab` process, its stdout / stderr /   *)
(*     heartbeat callbacks, the close and error handlers, stopTest;        *)
(*   - the session controller (the express server): the session store,     *)
(*     addLogToSession / broadcastToSession, the create / start / stop /   *)
(*     delete / validate-config request handlers, the WebSocket            *)
(*     subscriptions and the periodic cleanup of old sessions.             *)
(*                                                                         *)
(* One action is one turn of the Node event loop: a request handler or an  *)
(* event callback together with the promise continuations (microtasks)     *)
(* and process.nextTick callbacks it schedules, which run before any other *)
(* I/O callback.                                                           *)
(***************************************************************************)
EXTENDS Integers, Sequences, FiniteSets, TLC

\* ------------------------------------------------------------------ bounds

\* Number of session ids uuidv4 hands out.
MaxSessions == 2

\* Number of runTest invocations per session id.
MaxRuns == 2

\* Number of stdout-line / stderr-data / heartbeat callbacks delivered in all.
MaxCallbacks == 1

\* Number of WebSocket connections accepted.
MaxConnections == 2

\* Number of session snapshots sent to subscribers in all.
MaxSnapshots == 2

\* Number of log entries and other events pushed in all in WsSpec.
MaxEvents == 3

\* Number of addLogToSession calls for one session in LogSpec.
MaxAppends == 502

\* The verbosity a config asks for, when it asks for one.
Verbosities == {0, 2, 3, 4}

\* Lines of stdout delivered to the line handler.
MaxStdoutLines == 3

\* Labelled lines in a captured output.
MaxLabels == 2

\* Entries of a header map.
MaxHeaders == 2

\* Lines of captured stdout handed to parseResults.
MaxLines == 3

\* ------------------------------------------------------- program constants

MAX_LOGS_PER_SESSION == 500

\* Milliseconds.
SESSION_LIFETIME == 24 * 60 * 60 * 1000

\* The age above which cleanupOldSessions removes a completed or failed session.
StaleCompletedAge == 60 * 60 * 1000

\* enum TestStatus
TestStatuses == {"preparing", "running", "completed", "stopped", "error"}

SessionIds == 1..MaxSessions

VARIABLES
    sessions,         \* the `sessions` Map: session id -> TestSession
    nextId,           \* the next fresh session id (uuidv4 never repeats)
    activeProcesses,  \* runner's Map: session id -> child process (run index)
    stoppedByUser,    \* runner's Set of session ids
    runs,             \* per session id, its runTest invocations: closure and process
    pushed,           \* per session id, the messages sent for it, each with the
                      \* connection it went to (0: no open subscriber, dropped)
    callbacks,        \* stream / timer callbacks delivered so far
    websocketClients, \* the `websocketClients` Map: session id -> connection
    connections,      \* per connection, its readyState
    now,              \* Date.now(), in milliseconds
    validation,       \* the config sent to validation and the answer it got
    call              \* the call of parseResults or buildCommand under check:
                      \* its input and what it returned

\* The state of the WebSocket server, the clock and the validation exchange.
serverVars == <<websocketClients, connections, now, validation, call>>

vars == <<sessions, nextId, activeProcesses, stoppedByUser, runs, pushed, callbacks,
          websocketClients, connections, now, validation, call>>

\* ------------------------------------------------------------ configurations

ValidUrl == "http://host/"

\* `new URL(url)` succeeds.
UrlParses(url) == url = ValidUrl

Config(url, requests, concurrency, method, dataBody) ==
    [url |-> url, requests |-> requests, concurrency |-> concurrency,
     method |-> method, dataBody |-> dataBody]

\* The configurations sessions are created with (the request body is not
\* checked on creation): a GET without a body, a POST with a body (needs a
\* payload file), and one config for each check of validateConfig: no URL, a
\* URL that does not parse, no requests and no concurrency, a concurrency above
\* the request count, a POST and a PUT without a body.
TestConfigs ==
    { Config(ValidUrl, 2, 1, "GET", ""),
      Config(ValidUrl, 2, 1, "POST", "x"),
      Config("", 2, 1, "GET", ""),
      Config("not a url", 2, 1, "GET", ""),
      Config(ValidUrl, 0, 0, "GET", ""),
      Config(ValidUrl, 1, 2, "GET", ""),
      Config(ValidUrl, 2, 1, "POST", ""),
      Config(ValidUrl, 2, 1, "PUT", "") }

\* A JSON body may leave a property out: the config then has no such field.
\* `config.f <= 0`: false for a missing number.
NotPositive(config, f) == f \in DOMAIN config /\ config[f] <= 0

\* `!config.f`: a missing number, or 0.
Falsy(config, f) == f \notin DOMAIN config \/ config[f] = 0

\* `config.concurrency > config.requests`: false when either is missing.
ConcurrencyAboveRequests(config) ==
    /\ "concurrency" \in DOMAIN config /\ "requests" \in DOMAIN config
    /\ config.concurrency > config.requests

\* Mutant of ValidateConfig: the POST / PUT body requirement is not checked.
ValidateConfigWithoutBodyCheck(config) ==
    (IF config.url = "" THEN <<"URL is required">> ELSE <<>>)
    \o (IF NotPositive(config, "requests")
        THEN <<"Requests must be greater than 0">> ELSE <<>>)
    \o (IF NotPositive(config, "concurrency")
        THEN <<"Level concurrency must be greater than 0">> ELSE <<>>)
    \o (IF ConcurrencyAboveRequests(config)
        THEN <<"Level concurrency must be less than or equal to requests">> ELSE <<>>)
    \o (IF ~UrlParses(config.url) THEN <<"Invalid URL">> ELSE <<>>)

\* validateConfig: the list of all violations, in the order the code pushes them.
ValidateConfig(config) ==
    (IF config.url = "" THEN <<"URL is required">> ELSE <<>>)
    \o (IF NotPositive(config, "requests")
        THEN <<"Requests must be greater than 0">> ELSE <<>>)
    \o (IF NotPositive(config, "concurrency")
        THEN <<"Level concurrency must be greater than 0">> ELSE <<>>)
    \o (IF ConcurrencyAboveRequests(config)
        THEN <<"Level concurrency must be less than or equal to requests">> ELSE <<>>)
    \o (IF config.method = "POST" /\ config.dataBody = ""
        THEN <<"POST method requires data in dataBody">> ELSE <<>>)
    \o (IF config.method = "PUT" /\ config.dataBody = ""
        THEN <<"PUT method requires data in dataBody">> ELSE <<>>)
    \o (IF ~UrlParses(config.url) THEN <<"Invalid URL">> ELSE <<>>)

\* Mutant of ValidateConfigRequest: the endpoint does not compare concurrency
\* with requests.
ValidateConfigRequestNoCompare(config) ==
    (IF config.url = "" THEN <<"URL is required">> ELSE <<>>)
    \o (IF Falsy(config, "requests") \/ NotPositive(config, "requests")
        THEN <<"Requests must be greater than 0">> ELSE <<>>)
    \o (IF Falsy(config, "concurrency") \/ NotPositive(config, "concurrency")
        THEN <<"Concurrency must be greater than 0">> ELSE <<>>)
    \o (IF ~UrlParses(config.url) THEN <<"Invalid URL">> ELSE <<>>)

\* POST /api/validate-config: the errors it answers with (valid: none).
ValidateConfigRequest(config) ==
    (IF config.url = "" THEN <<"URL is required">> ELSE <<>>)
    \o (IF Falsy(config, "requests") \/ NotPositive(config, "requests")
        THEN <<"Requests must be greater than 0">> ELSE <<>>)
    \o (IF Falsy(config, "concurrency") \/ NotPositive(config, "concurrency")
        THEN <<"Concurrency must be greater than 0">> ELSE <<>>)
    \o (IF ConcurrencyAboveRequests(config)
        THEN <<"Concurrency must be less than or equal to requests">> ELSE <<>>)
    \o (IF ~UrlParses(config.url) THEN <<"Invalid URL">> ELSE <<>>)

\* buildCommand writes a payload file (the -p and -u branches).
NeedsDataFile(config) ==
    \/ config.method \in {"POST", "GET"} /\ config.dataBody # ""
    \/ config.method = "PUT" /\ config.dataBody # ""

\* ------------------------------------------------------------ log and push

LogEntry(level, message) == [type |-> "log", level |-> level, message |-> message]

WsMessage(type, data) == [type |-> type, level |-> "-", message |-> data]

\* Mutant of AppendLog: the cap keeps the oldest entries.
AppendLogKeepOldest(logs, entry) ==
    LET l == Append(logs, entry)
    IN  IF Len(l) > MAX_LOGS_PER_SESSION THEN SubSeq(l, 1, MAX_LOGS_PER_SESSION) ELSE l

\* session.logs.push(entry) followed by the slice(-MAX_LOGS_PER_SESSION).
AppendLog(logs, entry) ==
    LET l == Append(logs, entry)
    IN  IF Len(l) > MAX_LOGS_PER_SESSION
        THEN SubSeq(l, Len(l) - MAX_LOGS_PER_SESSION + 1, Len(l))
        ELSE l

\* The connection broadcastToSession sends to: the session's subscriber if its
\* readyState is OPEN, else none (0: the message is dropped with a warning).
Recipient(sid) ==
    IF sid \in DOMAIN websocketClients /\ connections[websocketClients[sid]] = "open"
    THEN websocketClients[sid]
    ELSE 0

\* client.send(JSON.stringify(message))
Sent(msg, to) ==
    [type |-> msg.type, level |-> msg.level, message |-> msg.message, to |-> to]

\* broadcastToSession: the message goes to the session's subscriber, if any.
BroadcastToSession(P, sid, msg) == [P EXCEPT ![sid] = Append(@, Sent(msg, Recipient(sid)))]

\* A handler's emissions in order: a "log" item is addLogToSession (append to
\* the session's buffer and broadcast it, only if the session exists), any other
\* item is a direct broadcastToSession call.
RECURSIVE EmitAll(_, _, _, _)
EmitAll(S, P, sid, items) ==
    IF items = <<>>
    THEN [sessions |-> S, pushed |-> P]
    ELSE LET it == Head(items)
         IN  IF it.type = "log"
             THEN IF sid \in DOMAIN S
                  THEN EmitAll([S EXCEPT ![sid].logs = AppendLog(@, it)],
                               BroadcastToSession(P, sid, it), sid, Tail(items))
                  ELSE EmitAll(S, P, sid, Tail(items))
             ELSE EmitAll(S, BroadcastToSession(P, sid, it), sid, Tail(items))

\* ------------------------------------------------------------------ state

NoResult == "none"
ZeroResult == "zero"
ParsedResult == "parsed"

NewSession(config) ==
    [config |-> config, status |-> "preparing", startTime |-> now, logs |-> <<>>,
     result |-> NoResult, ended |-> FALSE]

\* The connections the WebSocket server accepts.
ConnectionIds == 1..MaxConnections

NoValidation == [by |-> "none"]

\* No call of parseResults or buildCommand is under check.
NoCall == [fn |-> "none"]

Init ==
    /\ sessions = <<>>
    /\ nextId = 1
    /\ activeProcesses = <<>>
    /\ stoppedByUser = {}
    /\ runs = [s \in SessionIds |-> <<>>]
    /\ pushed = [s \in SessionIds |-> <<>>]
    /\ callbacks = 0
    /\ websocketClients = <<>>
    /\ connections = [c \in ConnectionIds |-> "none"]
    /\ now = 0
    /\ validation = NoValidation
    /\ call = NoCall

\* Map.delete(key)
MapDelete(m, k) == [x \in DOMAIN m \ {k} |-> m[x]]

\* Map.set(key, value)
MapSet(m, k, v) == [x \in DOMAIN m \cup {k} |-> IF x = k THEN v ELSE m[x]]

\* The closure of one runTest invocation and the child process it spawns.
\*   pc       "invalid"  validation threw, "building" awaiting buildCommand,
\*            "failed" buildCommand threw, "alive" the process runs,
\*            "exited" the process has exited ('close' not yet emitted),
\*            "closed" the 'close' handler has run
\*   exit     how the process ended: "none", "zero", "nonzero" or "signal"
\*            (exitCode is null for "none" and "signal")
\*   killed   ChildProcess.killed
\*   dataFile "none", "present" or "deleted"
\*   outcome  the promise runTest returned: "pending", "result", "null", "rejected"
\* and, as history: sunk (the entries passed to onLog), unlinks (fs.unlink calls
\* on the payload file), kills (signals sent), removals (times the handle was
\* taken out of activeProcesses), stopAt (Len(sunk) when stopTest found the
\* handle, else -1), stopAlive (the process was alive at that moment),
\* suppressed (callbacks that returned at once because of stoppedByUser).
NewRun(sid, config) ==
    [sid |-> sid, config |-> config, pc |-> "invalid", exit |-> "none",
     killed |-> FALSE, dataFile |-> "none", unlinks |-> 0, outcome |-> "pending",
     parsed |-> FALSE, interval |-> FALSE, output |-> 0, errorOutput |-> 0,
     sunk |-> <<>>, kills |-> 0, removals |-> 0, stopAt |-> -1, stopAlive |-> FALSE,
     suppressed |-> 0]

\* abProcess.exitCode === null
ExitCodeIsNull(run) == run.exit \in {"none", "signal"}

\* resolve / reject settle the promise only while it is pending.
Settle(run, outcome) ==
    IF run.outcome = "pending" THEN [run EXCEPT !.outcome = outcome] ELSE run

\* if (dataFile) cleanupTempDataFile(dataFile): fs.unlink, errors ignored.
CleanupTempDataFile(run) ==
    IF run.dataFile = "none" THEN run
    ELSE [run EXCEPT !.dataFile = "deleted", !.unlinks = @ + 1]

\* activeProcesses.delete(sessionId), counting it for the run whose handle goes.
RemoveHandle(R, sid) ==
    IF sid \in DOMAIN activeProcesses
    THEN [R EXCEPT ![sid][activeProcesses[sid]].removals = @ + 1]
    ELSE R

\* The stream and timer callbacks return at once when this holds.
Suppressed(run) == run.sid \in stoppedByUser

\* The close handler's branch for a run stopped by the user.
CloseStopped(run) ==
    Settle(CleanupTempDataFile(
        [run EXCEPT !.sunk = @ \o <<LogEntry("info", "Test stopped by user")>>]), "null")

\* The close handler's branch for code !== 0.
CloseFailed(run) ==
    Settle([run EXCEPT !.sunk = @ \o <<LogEntry("error", "Apache Benchmark finished with code")>>],
           "rejected")

\* The close handler's branch for code 0: parseResults, resolve, finally cleanup.
CloseSucceeded(run) ==
    CleanupTempDataFile(Settle(
        [run EXCEPT !.parsed = TRUE,
                    !.sunk = @ \o <<LogEntry("info", "Test completed: N RPS")>>], "result"))

\* Mutant of CloseRun: the close handler goes by the exit code alone.
CloseRunByExitCode(run) ==
    LET r0 == [run EXCEPT !.pc = "closed", !.interval = FALSE]
    IN  IF run.exit # "zero" THEN CloseFailed(r0) ELSE CloseSucceeded(r0)

\* abProcess.on('close')
CloseRun(run) ==
    LET r0 == [run EXCEPT !.pc = "closed", !.interval = FALSE]
    IN  IF Suppressed(run) THEN CloseStopped(r0)
        ELSE IF run.exit # "zero" THEN CloseFailed(r0)
        ELSE CloseSucceeded(r0)

\* The four entries runTest logs around a spawn (lines 459, 471, 697, 698).
SpawnLogs ==
    << LogEntry("info", "Command: ab ..."),
       LogEntry("info", "Apache Benchmark started (PID)"),
       LogEntry("info", "Apache Benchmark started..."),
       LogEntry("info", "Running N requests with concurrency C") >>

\* The 'error' handler of the child process (spawn failure).
ErrorHandler(run) ==
    Settle(CleanupTempDataFile(
        [run EXCEPT !.interval = FALSE,
                    !.sunk = @ \o <<LogEntry("error", "Error process")>>]), "rejected")

\* new Promise executor: spawn, the start logs, the interval, the handle. When
\* the spawn fails (ENOENT, EACCES), the child emits 'error' and, with no stdio
\* pipe to wait for, 'close' right after it with the negative errno as code,
\* both on the process.nextTick that follows the executor: the handle set by the
\* executor is removed again by the close handler.
Spawned(run, ok) ==
    LET r1 == [run EXCEPT !.sunk = @ \o SpawnLogs]
    IN  IF ok
        THEN [r1 EXCEPT !.pc = "alive", !.interval = TRUE]
        ELSE CloseRun(ErrorHandler([r1 EXCEPT !.exit = "nonzero", !.removals = @ + 1]))

\* activeProcesses after runTest ran up to `run`: set for a process that runs,
\* set and deleted again (by the close handler) for a failed spawn.
HandlesAfterSpawn(s, r, run) ==
    IF run.pc = "alive" THEN MapSet(activeProcesses, s, r)
    ELSE IF run.pc = "closed" THEN MapDelete(activeProcesses, s)
    ELSE activeProcesses

\* stoppedByUser after runTest ran up to `run` (the close handler's delete).
StoppedAfterSpawn(s, run) ==
    IF run.pc = "closed" THEN stoppedByUser \ {s} ELSE stoppedByUser

\* Mutant of StartAllowed: the start handler does not look at the status.
StartAllowedAlways(s) == TRUE

\* The start handler's guard.
StartAllowed(s) == sessions[s].status = "preparing"

\* Mutant of StartRefused: only a missing session is turned away.
StartRefusedOnlyMissing(s) == s \notin DOMAIN sessions

\* The start handler answers 404 for a session that does not exist and 400 for
\* one that is not preparing, and does nothing else.
StartRefused(s) == s \notin DOMAIN sessions \/ ~StartAllowed(s)

\* POST /api/sessions/:sessionId/start, with runTest up to its first suspension:
\* validation, and for a config without payload file the spawn itself (the
\* await of buildCommand then resumes in a microtask).
StartSession(s, ok) ==
    IF StartRefused(s) THEN UNCHANGED vars
    ELSE
    /\ Len(runs[s]) < MaxRuns
    /\ LET config == sessions[s].config
           r == Len(runs[s]) + 1
           run0 == NewRun(s, config)
           prep == [run0 EXCEPT !.sunk = <<LogEntry("info", "Preparing to run Apache Benchmark...")>>]
           run == IF ValidateConfig(config) # <<>>
                  THEN Settle(run0, "rejected")
                  ELSE IF NeedsDataFile(config)
                       THEN [prep EXCEPT !.pc = "building"]
                       ELSE Spawned(prep, ok)
           S1 == [sessions EXCEPT ![s].status = "running", ![s].startTime = now]
           e == EmitAll(S1, pushed, s,
                        << WsMessage("test_start", "config"),
                           LogEntry("info", "Starting load testing...") >> \o run.sunk)
       IN  /\ runs' = [runs EXCEPT ![s] = Append(@, run)]
           /\ activeProcesses' = HandlesAfterSpawn(s, r, run)
           /\ stoppedByUser' = StoppedAfterSpawn(s, run)
           /\ sessions' = e.sessions
           /\ pushed' = e.pushed
    /\ UNCHANGED <<nextId, callbacks, serverVars>>

\* buildCommand's file write completes (or throws) and runTest goes on to spawn.
BuildDone(s, r, res) ==
    /\ r \in 1..Len(runs[s])
    /\ runs[s][r].pc = "building"
    /\ LET run0 == runs[s][r]
           run == IF res = "writeerr"
                  THEN Settle([run0 EXCEPT !.pc = "failed",
                                           !.sunk = @ \o <<LogEntry("error", "Error start")>>],
                              "rejected")
                  ELSE Spawned([run0 EXCEPT !.dataFile = "present"], res = "ok")
           e == EmitAll(sessions, pushed, s,
                        SubSeq(run.sunk, Len(run0.sunk) + 1, Len(run.sunk)))
       IN  /\ runs' = [runs EXCEPT ![s][r] = run]
           /\ activeProcesses' = HandlesAfterSpawn(s, r, run)
           /\ stoppedByUser' = StoppedAfterSpawn(s, run)
           /\ sessions' = e.sessions
           /\ pushed' = e.pushed
    /\ UNCHANGED <<nextId, callbacks, serverVars>>

\* The lines `ab` writes to stdout, by the branch of the line handler they take:
\* an empty line, the "Benchmarking <host>" marker, and any other line (a
\* "Label: value" line of the report), which is only captured.
StdoutKinds == {"blank", "benchmarking", "label"}

StdoutEvent(kind) ==
    IF kind = "benchmarking" THEN <<LogEntry("info", "Benchmarking")>> ELSE <<>>

\* stdoutReader.on('line')
StdoutLineRun(run, kind) ==
    IF Suppressed(run) THEN [run EXCEPT !.suppressed = @ + 1]
    ELSE IF kind = "blank" THEN run
    ELSE [run EXCEPT !.output = @ + 1, !.sunk = @ \o StdoutEvent(kind)]

\* The chunks `ab` writes to stderr (one line each), by the branch they take.
StderrKinds == {"completed", "connection", "ignorable", "other"}

StderrEvent(kind) ==
    CASE kind = "completed" -> <<LogEntry("info", "Finished: N requests")>>
      [] kind = "connection" -> <<LogEntry("error", "Error: apr_socket_recv")>>
      [] kind = "other" -> <<LogEntry("debug", "STDERR: ...")>>
      [] OTHER -> <<>>

\* abProcess.stderr.on('data')
StderrDataRun(run, kind) ==
    IF Suppressed(run) THEN [run EXCEPT !.suppressed = @ + 1]
    ELSE [run EXCEPT !.errorOutput = @ + 1, !.sunk = @ \o StderrEvent(kind)]

\* The setInterval callback.
HeartbeatRun(run) ==
    IF Suppressed(run) THEN [run EXCEPT !.suppressed = @ + 1]
    ELSE IF ExitCodeIsNull(run)
    THEN [run EXCEPT !.sunk = @ \o <<LogEntry("info", "Test is running...")>>]
    ELSE run

\* A callback of run r takes it to `run`: what it passed to onLog goes to the
\* session through addLogToSession.
Callback(s, r, run) ==
    /\ callbacks < MaxCallbacks
    /\ callbacks' = callbacks + 1
    /\ LET e == EmitAll(sessions, pushed, run.sid,
                        SubSeq(run.sunk, Len(runs[s][r].sunk) + 1, Len(run.sunk)))
       IN  /\ sessions' = e.sessions
           /\ pushed' = e.pushed
    /\ runs' = [runs EXCEPT ![s][r] = run]
    /\ UNCHANGED <<nextId, activeProcesses, stoppedByUser, serverVars>>

\* The pipes deliver data until the child's 'close'.
StdoutLine(s, r, kind) ==
    /\ r \in 1..Len(runs[s])
    /\ runs[s][r].pc \in {"alive", "exited"}
    /\ Callback(s, r, StdoutLineRun(runs[s][r], kind))

StderrData(s, r, kind) ==
    /\ r \in 1..Len(runs[s])
    /\ runs[s][r].pc \in {"alive", "exited"}
    /\ Callback(s, r, StderrDataRun(runs[s][r], kind))

Heartbeat(s, r) ==
    /\ r \in 1..Len(runs[s])
    /\ runs[s][r].interval
    /\ Callback(s, r, HeartbeatRun(runs[s][r]))

\* The child process ends: with exit code 0, with another exit code, or by a
\* signal (one from outside, or the SIGKILL of stopTest, which ends it for sure).
ExitKinds == {"zero", "nonzero", "signal"}

ProcExit(s, r, how) ==
    /\ r \in 1..Len(runs[s])
    /\ runs[s][r].pc = "alive"
    /\ runs[s][r].killed => how = "signal"
    /\ runs' = [runs EXCEPT ![s][r].pc = "exited", ![s][r].exit = how]
    /\ UNCHANGED <<sessions, nextId, activeProcesses, stoppedByUser, pushed, callbacks, serverVars>>

\* The .then callback of the start handler: it runs when this close resolved
\* the promise, and does nothing for null.
ThenItems(before, after) ==
    IF before.outcome = "pending" /\ after.outcome = "result"
    THEN << LogEntry("info", "Test completed successfully!"),
            WsMessage("test_complete", "result") >>
    ELSE <<>>

ThenSessions(S, before, after) ==
    IF before.outcome = "pending" /\ after.outcome = "result" /\ after.sid \in DOMAIN S
    THEN [S EXCEPT ![after.sid].status = "completed", ![after.sid].ended = TRUE,
                   ![after.sid].result = ParsedResult]
    ELSE S

\* Mutant of CloseHandles: the close handler leaves the handle in the map.
CloseHandlesKept(s) == activeProcesses

\* this.activeProcesses.delete(sessionId) of the close handler (both branches).
CloseHandles(s) == MapDelete(activeProcesses, s)

Close(s, r) ==
    /\ r \in 1..Len(runs[s])
    /\ runs[s][r].pc = "exited"
    /\ LET run0 == runs[s][r]
           run == CloseRun(run0)
           e == EmitAll(ThenSessions(sessions, run0, run), pushed, s,
                        SubSeq(run.sunk, Len(run0.sunk) + 1, Len(run.sunk))
                        \o ThenItems(run0, run))
       IN  /\ runs' = RemoveHandle([runs EXCEPT ![s][r] = run], s)
           /\ stoppedByUser' = stoppedByUser \ {s}
           /\ activeProcesses' = CloseHandles(s)
           /\ sessions' = e.sessions
           /\ pushed' = e.pushed
    /\ UNCHANGED <<nextId, callbacks, serverVars>>

\* stopTest's condition: process && !process.killed
StopTestFound(s) ==
    s \in DOMAIN activeProcesses /\ ~runs[s][activeProcesses[s]].killed

\* process.kill('SIGKILL'): the signal is sent, and killed set, only while the
\* child's handle is open (the process has not been seen to exit).
Kill(run) ==
    IF run.pc = "alive" THEN [run EXCEPT !.killed = TRUE, !.kills = @ + 1] ELSE run

\* Mutant of StopTestStopped: every session with a handle is marked.
StopTestStoppedAll(s) ==
    IF s \in DOMAIN activeProcesses /\ ~runs[s][activeProcesses[s]].killed
    THEN stoppedByUser \cup DOMAIN activeProcesses
    ELSE stoppedByUser

\* Mutant of StopTestStopped: the session is marked before the handle is looked up.
StopTestStoppedAlways(s) == stoppedByUser \cup {s}

\* Mutant of StopTestStopped: the kill is sent without marking the session.
StopTestStoppedUnmarked(s) == stoppedByUser

\* stopTest(sessionId) on the runner's state; its return value is StopTestFound.
StopTestStopped(s) == IF StopTestFound(s) THEN stoppedByUser \cup {s} ELSE stoppedByUser

StopTestProcesses(s) ==
    IF StopTestFound(s) THEN MapDelete(activeProcesses, s) ELSE activeProcesses

StopTestRuns(s) ==
    IF StopTestFound(s)
    THEN LET r == activeProcesses[s]
         IN  [RemoveHandle(runs, s) EXCEPT
                 ![s][r] = [Kill(@) EXCEPT !.stopAt = Len(runs[s][r].sunk),
                                           !.stopAlive = (runs[s][r].pc = "alive")]]
    ELSE runs

\* What the stop handler does to the session after stopTest returned `stopped`.
StopSessions(s, stopped) ==
    IF stopped
    THEN [sessions EXCEPT ![s].status = "stopped", ![s].ended = TRUE,
                          ![s].result = ZeroResult]
    ELSE IF sessions[s].status = "running"
         THEN [sessions EXCEPT ![s].status = "stopped", ![s].ended = TRUE]
         ELSE sessions

StopItems(s, stopped) ==
    IF stopped
    THEN << LogEntry("info", "(check mark) Test stopped by user"),
            WsMessage("test_stopped", "Test stopped by user") >>
    ELSE IF sessions[s].status = "running"
         THEN << LogEntry("info", "Process already finished"),
                 WsMessage("test_stopped", "Process already finished") >>
         ELSE <<>>

\* Mutant of StopRefused: a stopped session is not turned away.
StopRefusedUnlessStopped(s) == sessions[s].status \notin {"running", "preparing", "stopped"}

\* The stop handler answers at once, without calling stopTest, for a session
\* that is completed or stopped (200) or in any status but running / preparing (400).
StopRefused(s) == sessions[s].status \notin {"running", "preparing"}

\* POST /api/sessions/:sessionId/stop
StopSession(s) ==
    /\ s \in DOMAIN sessions
    /\ IF StopRefused(s)
       THEN UNCHANGED vars
       ELSE LET stopped == StopTestFound(s)
                e == EmitAll(StopSessions(s, stopped), pushed, s, StopItems(s, stopped))
            IN  /\ stoppedByUser' = StopTestStopped(s)
                /\ activeProcesses' = StopTestProcesses(s)
                /\ runs' = StopTestRuns(s)
                /\ sessions' = e.sessions
                /\ pushed' = e.pushed
                /\ UNCHANGED <<nextId, callbacks, serverVars>>

\* POST /api/sessions
CreateSession(config) ==
    /\ nextId <= MaxSessions
    /\ sessions' = MapSet(sessions, nextId, NewSession(config))
    /\ nextId' = nextId + 1
    /\ UNCHANGED <<activeProcesses, stoppedByUser, runs, pushed, callbacks, serverVars>>

\* DELETE /api/sessions/:sessionId
DeleteSession(s) ==
    /\ s \in DOMAIN sessions
    /\ sessions' = MapDelete(sessions, s)
    /\ websocketClients' = MapDelete(websocketClients, s)
    /\ UNCHANGED <<nextId, activeProcesses, stoppedByUser, runs, pushed, callbacks,
                   connections, now, validation, call>>

RunIds == 1..MaxRuns

\* The runner and the session handlers, with no WebSocket client connected.
Next ==
    \/ \E c \in TestConfigs : CreateSession(c)
    \/ \E s \in SessionIds : DeleteSession(s)
    \/ \E s \in SessionIds, ok \in BOOLEAN : StartSession(s, ok)
    \/ \E s \in SessionIds, r \in RunIds, res \in {"ok", "spawnerr", "writeerr"} : BuildDone(s, r, res)
    \/ \E s \in SessionIds, r \in RunIds, kind \in StdoutKinds : StdoutLine(s, r, kind)
    \/ \E s \in SessionIds, r \in RunIds, kind \in StderrKinds : StderrData(s, r, kind)
    \/ \E s \in SessionIds, r \in RunIds : Heartbeat(s, r)
    \/ \E s \in SessionIds, r \in RunIds, how \in ExitKinds : ProcExit(s, r, how)
    \/ \E s \in SessionIds, r \in RunIds : Close(s, r)
    \/ \E s \in SessionIds : StopSession(s)

Spec == Init /\ [][Next]_vars

\* What happens without a further request: the payload file gets written (or
\* the write fails), a live process ends, and the 'close' of an ended process
\* is delivered.
RunProgress(s, r) ==
    \/ \E res \in {"ok", "spawnerr", "writeerr"} : BuildDone(s, r, res)
    \/ \E how \in ExitKinds : ProcExit(s, r, how)
    \/ Close(s, r)

\* The program under the assumption that every run goes on: file writes
\* complete, processes end, and the event loop delivers 'close'.
LiveSpec ==
    Init /\ [][Next]_vars /\ \A s \in SessionIds : \A r \in RunIds : WF_vars(RunProgress(s, r))

\* ------------------------------------------------------ WebSocket subscribers

\* wss.on('connection'): a new connection, open.
WsConnect(c) ==
    /\ connections[c] = "none"
    /\ connections' = [connections EXCEPT ![c] = "open"]
    /\ UNCHANGED <<sessions, nextId, activeProcesses, stoppedByUser, runs, pushed,
                   callbacks, websocketClients, now, validation, call>>

\* The session_state message: the session's status, log buffer and result.
SessionState(s) ==
    WsMessage("session_state",
              [status |-> sessions[s].status, logs |-> sessions[s].logs,
               result |-> sessions[s].result])

\* The snapshots sent so far.
Snapshots ==
    LET n[s \in 0..MaxSessions] ==
            IF s = 0 THEN 0
            ELSE n[s - 1] + Len(SelectSeq(pushed[s], LAMBDA m : m.type = "session_state"))
    IN  n[MaxSessions]

\* Mutant of SubscribedClients: an earlier subscriber keeps the session.
SubscribedClientsFirstWins(c, s) ==
    IF s \in DOMAIN websocketClients THEN websocketClients ELSE MapSet(websocketClients, s, c)

\* The subscribe message's update of websocketClients: the entry of another
\* connection is deleted, then the entry is set to this connection.
SubscribedClients(c, s) == MapSet(websocketClients, s, c)

\* Mutant of SubscribeSnapshot: the snapshot leaves out the newest log entry.
SubscribeSnapshotStale(s) ==
    WsMessage("session_state",
              [status |-> sessions[s].status,
               logs |-> SubSeq(sessions[s].logs, 1, Len(sessions[s].logs) - 1),
               result |-> sessions[s].result])

\* What the subscribe handler sends for an existing session.
SubscribeSnapshot(s) == SessionState(s)

\* ws.on('message') with {type: 'subscribe', sessionId}: a message of a
\* connection, which may still arrive after the server has begun to close it
\* (ws.send then drops the snapshot). The session id is one handed out before.
WsSubscribe(c, s) ==
    /\ connections[c] \in {"open", "closing"}
    /\ s < nextId
    /\ websocketClients' = SubscribedClients(c, s)
    /\ IF s \in DOMAIN sessions
       THEN /\ Snapshots < MaxSnapshots
            /\ pushed' = [pushed EXCEPT ![s] =
                   Append(@, Sent(SubscribeSnapshot(s),
                                  IF connections[c] = "open" THEN c ELSE 0))]
       ELSE pushed' = pushed
    /\ UNCHANGED <<sessions, nextId, activeProcesses, stoppedByUser, runs, callbacks,
                   connections, now, validation, call>>

\* Mutant of SubscriptionsOf: every subscription counts as the connection's.
SubscriptionsOfAnyone(c) == DOMAIN websocketClients

\* The session ids whose subscriber is connection c.
SubscriptionsOf(c) == {s \in DOMAIN websocketClients : websocketClients[s] = c}

\* ws.on('message') with {type: 'disconnect'}: the first entry of the map that
\* points to this connection is deleted (any one of them here: the map's
\* insertion order is not kept), then ws.close() begins the closing handshake.
WsDisconnect(c) ==
    /\ connections[c] = "open"
    /\ \/ /\ SubscriptionsOf(c) = {}
          /\ websocketClients' = websocketClients
       \/ \E s \in SubscriptionsOf(c) : websocketClients' = MapDelete(websocketClients, s)
    /\ connections' = [connections EXCEPT ![c] = "closing"]
    /\ UNCHANGED <<sessions, nextId, activeProcesses, stoppedByUser, runs, pushed,
                   callbacks, now, validation, call>>

\* ws.on('close'): every entry that points to this connection is deleted.
WsClose(c) ==
    /\ connections[c] \in {"open", "closing"}
    /\ connections' = [connections EXCEPT ![c] = "closed"]
    /\ websocketClients' = [s \in DOMAIN websocketClients \ SubscriptionsOf(c) |->
                               websocketClients[s]]
    /\ UNCHANGED <<sessions, nextId, activeProcesses, stoppedByUser, runs, pushed,
                   callbacks, now, validation, call>>

\* addLogToSession(sessionId, level, message)
AddLogToSession(s, level, message) ==
    LET e == EmitAll(sessions, pushed, s, <<LogEntry(level, message)>>)
    IN  /\ sessions' = e.sessions
        /\ pushed' = e.pushed

\* The messages sent so far that are not snapshots.
Events ==
    LET n[s \in 0..MaxSessions] ==
            IF s = 0 THEN 0
            ELSE n[s - 1] + Len(SelectSeq(pushed[s], LAMBDA m : m.type # "session_state"))
    IN  n[MaxSessions]

\* The runner's log sink, or a handler, appends a log entry to a session; the
\* entry's message is its number among the messages of the session (its timestamp).
WsAppend(s) ==
    /\ s \in DOMAIN sessions
    /\ Events < MaxEvents
    /\ AddLogToSession(s, "info", Len(pushed[s]) + 1)
    /\ UNCHANGED <<nextId, activeProcesses, stoppedByUser, runs, callbacks, serverVars>>

\* A handler pushes an event of another type for a session.
WsBroadcast(s, type) ==
    /\ s \in DOMAIN sessions
    /\ Events < MaxEvents
    /\ pushed' = BroadcastToSession(pushed, s, WsMessage(type, "data"))
    /\ UNCHANGED <<sessions, nextId, activeProcesses, stoppedByUser, runs, callbacks,
                   serverVars>>

\* The session store and the broadcaster with WebSocket clients, under the
\* addLogToSession and broadcastToSession calls of the handlers and the runner.
WsNext ==
    \/ CreateSession(Config(ValidUrl, 2, 1, "GET", ""))
    \/ \E s \in SessionIds : DeleteSession(s)
    \/ \E s \in SessionIds : WsAppend(s)
    \/ \E s \in SessionIds : WsBroadcast(s, "test_start")
    \/ \E c \in ConnectionIds : WsConnect(c)
    \/ \E c \in ConnectionIds, s \in SessionIds : WsSubscribe(c, s)
    \/ \E c \in ConnectionIds : WsDisconnect(c)
    \/ \E c \in ConnectionIds : WsClose(c)

WsSpec == Init /\ [][WsNext]_vars

\* ------------------------------------------------------- the periodic cleanup

\* Mutant of IsStaleCompleted: a stopped session counts as finished too.
IsStaleCompletedOrStopped(s) ==
    /\ sessions[s].status \in {"completed", "error", "stopped"}
    /\ now - sessions[s].startTime > StaleCompletedAge

\* isOld
IsOld(s) == now - sessions[s].startTime > SESSION_LIFETIME

\* isStaleCompleted
IsStaleCompleted(s) ==
    /\ sessions[s].status \in {"completed", "error"}
    /\ now - sessions[s].startTime > StaleCompletedAge

\* sessionsToDelete
SessionsToDelete == {s \in DOMAIN sessions : IsOld(s) \/ IsStaleCompleted(s)}

\* cleanupOldSessions, run by setInterval every 30 minutes.
CleanupOldSessions ==
    /\ sessions' = [s \in DOMAIN sessions \ SessionsToDelete |-> sessions[s]]
    /\ websocketClients' = [s \in DOMAIN websocketClients \ SessionsToDelete |->
                               websocketClients[s]]
    /\ UNCHANGED <<nextId, activeProcesses, stoppedByUser, runs, pushed, callbacks,
                   connections, now, validation, call>>

\* The ages of the sessions a cleanup meets: new, at and just above the age for
\* finished sessions, at and just above SESSION_LIFETIME.
SweepAges ==
    {0, StaleCompletedAge, StaleCompletedAge + 1, SESSION_LIFETIME, SESSION_LIFETIME + 1}

\* The time of the cleanup.
SweepNow == SESSION_LIFETIME + 1

\* The sessions a cleanup meets: any status, any of the ages.
SweepSessions ==
    {[NewSession(Config(ValidUrl, 2, 1, "GET", "")) EXCEPT
          !.status = st, !.startTime = SweepNow - age] :
       st \in TestStatuses, age \in SweepAges}

\* The store when a cleanup comes due: every session id handed out holds a
\* session, and one connection is the subscriber of some of them.
SweepInit ==
    /\ now = SweepNow
    /\ sessions \in [SessionIds -> SweepSessions]
    /\ nextId = MaxSessions + 1
    /\ activeProcesses = <<>>
    /\ stoppedByUser = {}
    /\ runs = [s \in SessionIds |-> <<>>]
    /\ pushed = [s \in SessionIds |-> <<>>]
    /\ callbacks = 0
    /\ \E W \in SUBSET SessionIds : websocketClients = [s \in W |-> 1]
    /\ connections = [c \in ConnectionIds |-> IF c = 1 THEN "open" ELSE "none"]
    /\ validation = NoValidation
    /\ call = NoCall

SweepNext == CleanupOldSessions

SweepSpec == SweepInit /\ [][SweepNext]_vars

\* ------------------------------------------------------------ validation alone

\* The numbers a request body gives for requests and concurrency.
ValidateNumbers == {-1, 0, 1, 2, 3}

\* The configs sent to validation: every combination of a URL (none, one that
\* does not parse, one that does), a request count and a concurrency (each a
\* number or left out), a method and a body (none or some).
ValidateConfigs ==
    LET base == [url : {"", "not a url", ValidUrl}, method : {"GET", "POST", "PUT"},
                 dataBody : {"", "x"}]
        With(b, r, c) == [url |-> b.url, requests |-> r, concurrency |-> c,
                          method |-> b.method, dataBody |-> b.dataBody]
        NoRequests(b, c) == [url |-> b.url, concurrency |-> c,
                             method |-> b.method, dataBody |-> b.dataBody]
        NoConcurrency(b, r) == [url |-> b.url, requests |-> r,
                                method |-> b.method, dataBody |-> b.dataBody]
        Neither(b) == [url |-> b.url, method |-> b.method, dataBody |-> b.dataBody]
    IN  {With(b, r, c) : b \in base, r \in ValidateNumbers, c \in ValidateNumbers}
        \cup {NoRequests(b[1], b[2]) : b \in base \X ValidateNumbers}
        \cup {NoConcurrency(b[1], b[2]) : b \in base \X ValidateNumbers}
        \cup {Neither(b) : b \in base}

\* A config is about to be validated.
ValidateInit ==
    /\ validation \in {[by |-> "none", config |-> c, errors |-> <<>>] : c \in ValidateConfigs}
    /\ sessions = <<>>
    /\ nextId = 1
    /\ activeProcesses = <<>>
    /\ stoppedByUser = {}
    /\ runs = [s \in SessionIds |-> <<>>]
    /\ pushed = [s \in SessionIds |-> <<>>]
    /\ callbacks = 0
    /\ websocketClients = <<>>
    /\ connections = [c \in ConnectionIds |-> "none"]
    /\ now = 0
    /\ call = NoCall

\* The config is posted to /api/validate-config.
ValidateByEndpoint ==
    /\ validation.by = "none"
    /\ validation' = [validation EXCEPT !.by = "endpoint",
                                        !.errors = ValidateConfigRequest(validation.config)]
    /\ UNCHANGED <<sessions, nextId, activeProcesses, stoppedByUser, runs, pushed,
                   callbacks, websocketClients, connections, now, call>>

\* The config is handed to runTest, whose first step is validateConfig.
ValidateByRunner ==
    /\ validation.by = "none"
    /\ validation' = [validation EXCEPT !.by = "runner",
                                        !.errors = ValidateConfig(validation.config)]
    /\ UNCHANGED <<sessions, nextId, activeProcesses, stoppedByUser, runs, pushed,
                   callbacks, websocketClients, connections, now, call>>

ValidateNext == ValidateByEndpoint \/ ValidateByRunner

ValidateSpec == ValidateInit /\ [][ValidateNext]_vars

\* ------------------------------------------------------ checked calls alone

\* The program state in which nothing but a checked call goes on.
Quiet ==
    /\ sessions = <<>>
    /\ nextId = 1
    /\ activeProcesses = <<>>
    /\ stoppedByUser = {}
    /\ runs = [s \in SessionIds |-> <<>>]
    /\ pushed = [s \in SessionIds |-> <<>>]
    /\ callbacks = 0
    /\ websocketClients = <<>>
    /\ connections = [c \in ConnectionIds |-> "none"]
    /\ now = 0
    /\ validation = NoValidation

\* --------------------------------------------------------- buildCommand alone

\* An argument is a text: a sequence of pieces, each a string that is never
\* split further ("-n", a digit, a name, the ": " between a header's name and
\* value).
Str(s) == <<s>>

Digits == <<"0", "1", "2", "3", "4", "5", "6", "7", "8", "9">>

\* Number.prototype.toString for a number below 100: its decimal digits.
NumberToString(n) ==
    IF n < 10 THEN <<Digits[n + 1]>> ELSE <<Digits[(n \div 10) + 1], Digits[(n % 10) + 1]>>

\* `if (config.f)` for an optional number: set and not 0.
TruthyNumber(config, f) == f \in DOMAIN config /\ config[f] # 0

\* `if (config.f)` for an optional boolean: set and true.
TruthyFlag(config, f) == f \in DOMAIN config /\ config[f]

\* `if (config.f)` for an optional string or map: set and, for a string, not
\* empty (an empty map is truthy).
Truthy(config, f) == f \in DOMAIN config /\ (f \in {"headers", "cookies"} \/ config[f] # <<>>)

\* `os.tmpdir()/ab-${sessionId}-${Date.now()}.txt`
DataFileName(sessionId, time) ==
    <<"ab-">> \o NumberToString(sessionId) \o <<"-">> \o NumberToString(time) \o <<".txt">>

\* Mutant of Verbosity: the requested verbosity is passed on as it is.
VerbosityAsRequested(config) ==
    IF "verbosity" \in DOMAIN config THEN config.verbosity ELSE 3

\* `Math.max(config.verbosity ?? 3, 3)`
Verbosity(config) ==
    LET requested == IF "verbosity" \in DOMAIN config THEN config.verbosity ELSE 3
    IN  IF requested > 3 THEN requested ELSE 3

\* One -H flag per entry of the header map: `${key}: ${value}`.
RECURSIVE HeaderArgs(_)
HeaderArgs(headers) ==
    IF headers = <<>> THEN <<>>
    ELSE <<Str("-H"), Head(headers)[1] \o <<": ">> \o Head(headers)[2]>>
         \o HeaderArgs(Tail(headers))

\* One -C flag per entry of the cookie map: `${key}=${value}`.
RECURSIVE CookieArgs(_)
CookieArgs(cookies) ==
    IF cookies = <<>> THEN <<>>
    ELSE <<Str("-C"), Head(cookies)[1] \o <<"=">> \o Head(cookies)[2]>>
         \o CookieArgs(Tail(cookies))

\* The payload arguments: the file under -p (POST, GET) or -u (PUT), then the
\* content type if one is set.
DataArgs(config, flag, dataFile) ==
    <<Str(flag), dataFile>>
    \o (IF Truthy(config, "contentType") THEN <<Str("-T"), config.contentType>> ELSE <<>>)

\* Mutant of BuildCommand: the URL is pushed before the payload arguments.
BuildCommandUrlBeforeData(config, sessionId, time) ==
    LET dataFile == DataFileName(sessionId, time)
    IN  <<Str("ab"), Str("-n"), NumberToString(config.requests),
          Str("-c"), NumberToString(config.concurrency)>>
        \o (IF TruthyNumber(config, "timelimit") THEN <<Str("-t"), NumberToString(config.timelimit)>> ELSE <<>>)
        \o (IF TruthyFlag(config, "keepalive") THEN <<Str("-k")>> ELSE <<>>)
        \o (IF config.method # "GET" THEN <<Str("-m"), Str(config.method)>> ELSE <<>>)
        \o (IF TruthyNumber(config, "timeout") THEN <<Str("-s"), NumberToString(config.timeout)>> ELSE <<>>)
        \o <<Str("-v"), NumberToString(Verbosity(config))>>
        \o (IF TruthyFlag(config, "acceptVaryingLength") THEN <<Str("-l")>> ELSE <<>>)
        \o (IF Truthy(config, "headers") THEN HeaderArgs(config.headers) ELSE <<>>)
        \o (IF Truthy(config, "cookies") THEN CookieArgs(config.cookies) ELSE <<>>)
        \o (IF Truthy(config, "authUsername") /\ Truthy(config, "authPassword")
            THEN <<Str("-A"), config.authUsername \o <<":">> \o config.authPassword>>
            ELSE <<>>)
        \o (IF Truthy(config, "proxyUrl") THEN <<Str("-X"), config.proxyUrl>> ELSE <<>>)
        \o <<Str(config.url)>>
        \o (IF config.method \in {"POST", "GET"} /\ config.dataBody # ""
            THEN DataArgs(config, "-p", dataFile) ELSE <<>>)
        \o (IF config.method = "PUT" /\ config.dataBody # ""
            THEN DataArgs(config, "-u", dataFile) ELSE <<>>)

\* buildCommand: the argument vector, in the order of the pushes.
BuildCommand(config, sessionId, time) ==
    LET dataFile == DataFileName(sessionId, time)
    IN  <<Str("ab"), Str("-n"), NumberToString(config.requests),
          Str("-c"), NumberToString(config.concurrency)>>
        \o (IF TruthyNumber(config, "timelimit") THEN <<Str("-t"), NumberToString(config.timelimit)>> ELSE <<>>)
        \o (IF TruthyFlag(config, "keepalive") THEN <<Str("-k")>> ELSE <<>>)
        \o (IF config.method # "GET" THEN <<Str("-m"), Str(config.method)>> ELSE <<>>)
        \o (IF TruthyNumber(config, "timeout") THEN <<Str("-s"), NumberToString(config.timeout)>> ELSE <<>>)
        \o <<Str("-v"), NumberToString(Verbosity(config))>>
        \o (IF TruthyFlag(config, "acceptVaryingLength") THEN <<Str("-l")>> ELSE <<>>)
        \o (IF Truthy(config, "headers") THEN HeaderArgs(config.headers) ELSE <<>>)
        \o (IF Truthy(config, "cookies") THEN CookieArgs(config.cookies) ELSE <<>>)
        \o (IF Truthy(config, "authUsername") /\ Truthy(config, "authPassword")
            THEN <<Str("-A"), config.authUsername \o <<":">> \o config.authPassword>>
            ELSE <<>>)
        \o (IF Truthy(config, "proxyUrl") THEN <<Str("-X"), config.proxyUrl>> ELSE <<>>)
        \o (IF config.method \in {"POST", "GET"} /\ config.dataBody # ""
            THEN DataArgs(config, "-p", dataFile) ELSE <<>>)
        \o (IF config.method = "PUT" /\ config.dataBody # ""
            THEN DataArgs(config, "-u", dataFile) ELSE <<>>)
        \o <<Str(config.url)>>

\* A property of the request body that may be left out: no field, or one of
\* the given values.
Optional(f, values) == {<<>>} \cup {[x \in {f} |-> v] : v \in values}

\* The configs handed to buildCommand: every combination of the options, for
\* the configs that pass validateConfig (runTest throws on the others).
BuildConfigs ==
    LET required == {Config(ValidUrl, n[1], n[2], m, b) :
                        n \in {<<12, 1>>}, m \in {"GET", "POST", "PUT"},
                        b \in {"", "x"}}
        switches == {k @@ l : k \in Optional("keepalive", {TRUE}),
                              l \in Optional("acceptVaryingLength", {TRUE})}
        limits == {tl @@ to : tl \in Optional("timelimit", {10}),
                              to \in Optional("timeout", {30})}
        maps == {h @@ c : h \in Optional("headers", {<<>>, <<<<(<<"X-A">>), (<<"1">>)>>,
                                                              <<(<<"X-B">>), (<<"2">>)>>>>}),
                          c \in Optional("cookies", {<<<<(<<"sid">>), (<<"1">>)>>>>})}
        auth == {u @@ pw : u \in Optional("authUsername", {<<"user">>}),
                           pw \in Optional("authPassword", {<<"secret">>})}
        rest == {x @@ ct : x \in Optional("proxyUrl", {<<"http://proxy/">>}),
                           ct \in Optional("contentType", {<<"application/json">>})}
        all == {r @@ v @@ s @@ l @@ m @@ a @@ o :
                   r \in required, v \in Optional("verbosity", Verbosities), s \in switches,
                   l \in limits, m \in maps, a \in auth, o \in rest}
    IN  {c \in all : ValidateConfig(c) = <<>>}

\* runTest is about to build the command of a validated config, for a session.
BuildInit ==
    /\ call \in {[fn |-> "pending", input |-> c, sessionId |-> s,
                   result |-> <<>>, again |-> <<>>] :
                    c \in BuildConfigs, s \in SessionIds}
    /\ Quiet

\* buildCommand runs.
Build ==
    /\ call.fn = "pending"
    /\ call' = [call EXCEPT !.fn = "buildCommand",
                            !.result = BuildCommand(call.input, call.sessionId, now)]
    /\ UNCHANGED <<sessions, nextId, activeProcesses, stoppedByUser, runs, pushed,
                   callbacks, websocketClients, connections, now, validation>>

\* buildCommand runs once more for the same config and session, later.
BuildAgain ==
    /\ call.fn = "buildCommand"
    /\ now' = now + 1
    /\ call' = [call EXCEPT !.fn = "buildCommand twice",
                            !.again = BuildCommand(call.input, call.sessionId, now')]
    /\ UNCHANGED <<sessions, nextId, activeProcesses, stoppedByUser, runs, pushed,
                   callbacks, websocketClients, connections, validation>>

BuildNext == Build \/ BuildAgain

BuildSpec == BuildInit /\ [][BuildNext]_vars

\* The header names and values a request body may give: any strings, the
\* separator ": " inside them included (the server checks neither).
HeaderNames == {<<"X-A">>, <<"X-B">>, <<"X-A", ": ", "1">>}

HeaderValues == {<<"1">>, <<"2">>, <<"1", ": ", "2">>}

\* The header maps of up to n entries, as Object.entries lists them: no name twice.
RECURSIVE HeaderMaps(_)
HeaderMaps(n) ==
    IF n = 0 THEN {<<>>}
    ELSE LET smaller == HeaderMaps(n - 1)
         IN  smaller \cup
             {Append(h[1], <<h[2], h[3]>>) :
                 h \in {g \in smaller \X HeaderNames \X HeaderValues :
                           /\ Len(g[1]) = n - 1
                           /\ \A k \in 1..Len(g[1]) : g[1][k][1] # g[2]}}

\* runTest is about to build the command of a GET config with a header map.
HeaderInit ==
    /\ call \in {[fn |-> "pending",
                   input |-> Config(ValidUrl, 1, 1, "GET", "") @@ [headers |-> h],
                   sessionId |-> s, result |-> <<>>, again |-> <<>>] :
                    h \in HeaderMaps(MaxHeaders), s \in SessionIds}
    /\ Quiet

HeaderSpec == HeaderInit /\ [][BuildNext]_vars

\* ------------------------------------------------- the stdout line handler alone

\* A line of stdout, by the branch of the line handler it takes, with the
\* numbers the branch reads from it (0: the line has none):
\*   "blank"         nothing but white space
\*   "benchmarking"  contains "Benchmarking"
\*   "json"          {...} that JSON.parse accepts, with its code and statusCode
\*   "badjson"       {...} that JSON.parse rejects
\*   "warning"       "WARNING: Response code not 2xx", with the (ddd) it carries
\*   "response"      "LOG: Response code = ddd"
\*   "label"         any other line
StdoutLines ==
    {[kind |-> k, code |-> 0, statusCode |-> 0] : k \in {"blank", "benchmarking", "badjson", "label"}}
    \cup {[kind |-> "json", code |-> c, statusCode |-> sc] : c, sc \in {0, 200, 404}}
    \cup {[kind |-> "warning", code |-> 0, statusCode |-> sc] : sc \in {0, 404}}
    \cup {[kind |-> "response", code |-> 0, statusCode |-> sc] : sc \in {200, 404}}

\* `a || b` on numbers: a unless it is 0 (or missing).
Or(a, b) == IF a # 0 THEN a ELSE b

\* The record the handler keeps of a parsed JSON line.
PendingJsonResponse(line) ==
    [code |-> Or(line.code, line.statusCode),
     statusCode |-> Or(line.statusCode, Or(line.code, 0))]

\* `config.verbosity ?? 2`, the verbosity the handlers of runTest go by.
HandlerVerbosity(config) == IF "verbosity" \in DOMAIN config THEN config.verbosity ELSE 2

\* An entry passed to onLog, with the number of the line that caused it.
LineEvent(closure, level, message) ==
    [level |-> level, message |-> message, line |-> Len(closure.lines) + 1]

\* Mutant of WarningBranch: the buffer is cleared only when an event was emitted.
WarningBranchKeepsUnshown(closure, line) ==
    LET responseCount == closure.responseCount + 1
        msg == [text |-> "Request", count |-> responseCount, statusCode |-> line.statusCode,
                response |-> closure.pendingJsonResponse]
        emitted == IF closure.pendingJsonResponse # <<>>
                   THEN IF closure.pendingJsonResponse[1].statusCode >= 400
                        THEN <<LineEvent(closure, "error", msg)>>
                        ELSE IF closure.verbosity >= 3
                        THEN <<LineEvent(closure, "debug", msg)>>
                        ELSE <<>>
                   ELSE <<LineEvent(closure, "error", msg)>>
    IN  [closure EXCEPT !.responseCount = responseCount,
                        !.pendingJsonResponse = IF emitted = <<>> THEN @ ELSE <<>>,
                        !.sunk = @ \o emitted]

\* The warning branch: the counter goes up, the message takes the pending
\* response in if there is one, and the buffer is cleared.
WarningBranch(closure, line) ==
    LET responseCount == closure.responseCount + 1
        msg == [text |-> "Request", count |-> responseCount, statusCode |-> line.statusCode,
                response |-> closure.pendingJsonResponse]
        emitted == IF closure.pendingJsonResponse # <<>>
                   THEN IF closure.pendingJsonResponse[1].statusCode >= 400
                        THEN <<LineEvent(closure, "error", msg)>>
                        ELSE IF closure.verbosity >= 3
                        THEN <<LineEvent(closure, "debug", msg)>>
                        ELSE <<>>
                   ELSE <<LineEvent(closure, "error", msg)>>
    IN  [closure EXCEPT !.responseCount = responseCount,
                        !.pendingJsonResponse = <<>>,
                        !.sunk = @ \o emitted]

\* The "LOG: Response code" branch: a 2xx code counts, every 10th is reported,
\* the others only at verbosity 3 and up.
ResponseBranch(closure, line) ==
    IF line.statusCode >= 200 /\ line.statusCode < 300
    THEN LET responseCount == closure.responseCount + 1
             emitted == IF responseCount % 10 = 0
                        THEN <<LineEvent(closure, "debug", [text |-> "Progress", count |-> responseCount])>>
                        ELSE IF closure.verbosity >= 3
                        THEN <<LineEvent(closure, "debug",
                                         [text |-> "Request", count |-> responseCount,
                                          statusCode |-> line.statusCode])>>
                        ELSE <<>>
         IN  [closure EXCEPT !.responseCount = responseCount, !.sunk = @ \o emitted]
    ELSE closure

\* stdoutReader.on('line'): nothing while the session is marked stopped or for
\* a blank line; else the line is captured and its branch taken.
StdoutLineHandler(closure, line) ==
    LET seen == [closure EXCEPT !.lines = Append(@, [line |-> line, handled |-> ~closure.stopped])]
    IN  IF closure.stopped \/ line.kind = "blank" THEN seen
        ELSE LET branch ==
                     CASE line.kind = "benchmarking" ->
                            [closure EXCEPT !.sunk = Append(@, LineEvent(closure, "info",
                                                                [text |-> "Benchmarking"]))]
                       [] line.kind = "json" ->
                            [closure EXCEPT !.pendingJsonResponse = <<PendingJsonResponse(line)>>]
                       [] line.kind = "badjson" ->
                            [closure EXCEPT !.sunk = Append(@, LineEvent(closure, "debug",
                                                                [text |-> "Failed to parse JSON"]))]
                       [] line.kind = "warning" -> WarningBranch(closure, line)
                       [] line.kind = "response" -> ResponseBranch(closure, line)
                       [] OTHER -> closure
             IN  [branch EXCEPT !.lines = seen.lines, !.output = @ + 1]

\* A process was spawned for a config: the closure of its handlers.
\*   pendingJsonResponse  <<>> for null, else the one record
\*   lines                history: the lines delivered, and whether each came
\*                        while the session was not marked stopped
StdoutInit ==
    /\ call \in {[fn |-> "stdout", verbosity |-> HandlerVerbosity(c), stopped |-> FALSE,
                   pendingJsonResponse |-> <<>>, responseCount |-> 0, output |-> 0,
                   lines |-> <<>>, sunk |-> <<>>] :
                    c \in {Config(ValidUrl, 1, 1, "GET", "") @@ v : v \in Optional("verbosity", Verbosities)}}
    /\ Quiet

\* The pipe delivers a line.
StdoutLineIn(line) ==
    /\ Len(call.lines) < MaxStdoutLines
    /\ call' = StdoutLineHandler(call, line)
    /\ UNCHANGED <<sessions, nextId, activeProcesses, stoppedByUser, runs, pushed,
                   callbacks, websocketClients, connections, now, validation>>

\* stopTest marks the session.
StdoutStop ==
    /\ ~call.stopped
    /\ call' = [call EXCEPT !.stopped = TRUE]
    /\ UNCHANGED <<sessions, nextId, activeProcesses, stoppedByUser, runs, pushed,
                   callbacks, websocketClients, connections, now, validation>>

StdoutNext == (\E line \in StdoutLines : StdoutLineIn(line)) \/ StdoutStop

StdoutSpec == StdoutInit /\ [][StdoutNext]_vars

\* --------------------------------------------------------- parseResults alone

\* The status codes that occur in the captured stdout.
StatusCodes == {100, 200, 201, 302, 404, 503}

\* A line of the captured stdout, as the status codes of its `HTTP/1.x ddd`
\* occurrences from left to right: none, one, or two.
OutputLines == {<<>>} \cup {<<c>> : c \in StatusCodes} \cup {<<200, 404>>, <<404, 200>>}

\* getStatusMessage: the reason phrase of a code, or "HTTP <code>".
GetStatusMessage(statusCode) ==
    CASE statusCode = 200 -> "OK"
      [] statusCode = 201 -> "Created"
      [] statusCode = 302 -> "Found"
      [] statusCode = 404 -> "Not Found"
      [] statusCode = 503 -> "Service Unavailable"
      [] OTHER -> <<"HTTP", statusCode>>

\* The loop over the lines: a line counts once, under the code of its first
\* occurrence (String.match without the g flag).
RECURSIVE CountStatusCodes(_, _)
CountStatusCodes(lines, statusCodes) ==
    IF lines = <<>> THEN statusCodes
    ELSE LET line == Head(lines)
             statusCode == line[1]
             seen == IF statusCode \in DOMAIN statusCodes THEN statusCodes[statusCode] ELSE 0
         IN  CountStatusCodes(Tail(lines),
                 IF line = <<>> THEN statusCodes
                 ELSE MapSet(statusCodes, statusCode, seen + 1))

\* The sum of the counts of the codes in `codes`.
RECURSIVE SumCounts(_, _)
SumCounts(statusCodes, codes) ==
    IF codes = {} THEN 0
    ELSE LET code == CHOOSE c \in codes : TRUE
         IN  statusCodes[code] + SumCounts(statusCodes, codes \ {code})

\* The entries of errorSummary: one per code from 300 up, in the order of
\* Object.entries (integer keys ascending).
RECURSIVE SummaryOf(_, _)
SummaryOf(statusCodes, codes) ==
    IF codes = {} THEN <<>>
    ELSE LET code == CHOOSE c \in codes : \A d \in codes : c <= d
         IN  <<[statusCode |-> code, count |-> statusCodes[code],
                message |-> GetStatusMessage(code)]>>
             \o SummaryOf(statusCodes, codes \ {code})

\* The fields parseResults derives from the histogram.
Analysis(statusCodes) ==
    LET codes == DOMAIN statusCodes
    IN  [statusCodes |-> statusCodes,
         successfulRequests |-> SumCounts(statusCodes, {c \in codes : c >= 200 /\ c < 300}),
         clientErrors |-> SumCounts(statusCodes, {c \in codes : c >= 400 /\ c < 500}),
         serverErrors |-> SumCounts(statusCodes, {c \in codes : c >= 500}),
         redirects |-> SumCounts(statusCodes, {c \in codes : c >= 300 /\ c < 400}),
         errorSummary |-> SummaryOf(statusCodes, {c \in codes : c >= 300})]

\* Mutant of ParseResults: the analysis is made of an empty histogram too.
ParseResultsAlwaysAnalysed(output) == Analysis(CountStatusCodes(output, <<>>))

\* parseResults, as far as the status codes go: the histogram fields are set
\* only when a code was counted; otherwise the result has none of them.
ParseResults(output) ==
    LET statusCodes == CountStatusCodes(output, <<>>)
    IN  IF DOMAIN statusCodes # {} THEN Analysis(statusCodes) ELSE <<>>

RECURSIVE SeqsUpTo(_, _)
\* The sequences over S of length at most n.
SeqsUpTo(S, n) ==
    IF n = 0 THEN {<<>>}
    ELSE LET shorter == SeqsUpTo(S, n - 1)
         IN  shorter \cup {Append(q, x) : q \in shorter, x \in S}

\* A process closed with code 0 and this captured stdout.
ParseInit ==
    /\ call \in {[fn |-> "pending", input |-> o, result |-> <<>>] :
                    o \in SeqsUpTo(OutputLines, MaxLines)}
    /\ Quiet

\* The close handler parses the captured stdout.
ParseOutput ==
    /\ call.fn = "pending"
    /\ call' = [call EXCEPT !.fn = "parseResults", !.result = ParseResults(call.input)]
    /\ UNCHANGED <<sessions, nextId, activeProcesses, stoppedByUser, runs, pushed,
                   callbacks, websocketClients, connections, now, validation>>

ParseNext == ParseOutput

ParseSpec == ParseInit /\ [][ParseNext]_vars

\* ------------------------------------------------------ result assembly alone

\* A number as JavaScript has it: a value, or NaN.
Num(n) == [nan |-> FALSE, value |-> n]

NaN == [nan |-> TRUE, value |-> 0]

\* `x || d` on a number: d when x is missing, 0 or NaN.
OrElse(fields, f, d) ==
    IF f \in DOMAIN fields /\ ~fields[f].nan /\ fields[f].value # 0 THEN fields[f] ELSE d

\* The text after a label: a number, something that is no number, or nothing.
LabelTexts ==
    {[kind |-> "number", value |-> 0], [kind |-> "number", value |-> 7],
     [kind |-> "garbage", value |-> 0], [kind |-> "empty", value |-> 0]}

\* parseInt / parseFloat of a non-empty text.
ParseNumber(text) == IF text.kind = "number" THEN Num(text.value) ELSE NaN

\* The labels read as `parseInt(rest || '0')`.
IntLabels == {"serverPort", "concurrencyLevel", "completeRequests", "failedRequests"}

\* The labels read as `word ? parse(word) : 0`.
WordLabels ==
    {"documentLength", "timeTaken", "totalTransferred", "htmlTransferred", "requestsPerSecond",
     "timePerRequest", "timePerRequestConcurrent", "transferRate"}

\* parseResults on the labelled lines: a field for each label found in the output.
ParseLabels(labelled) ==
    [f \in DOMAIN labelled |->
        IF labelled[f].kind = "empty" THEN Num(0) ELSE ParseNumber(labelled[f])]

\* The result literal of the close handler: the defaults, then `...parsedResult`
\* over them (every field parseResults set replaces the default).
AssembleResult(config, parsedResult) ==
    parsedResult @@
    [serverPort |-> OrElse(parsedResult, "serverPort", Num(80)),
     concurrencyLevel |-> OrElse(parsedResult, "concurrencyLevel", Num(config.concurrency)),
     timeTaken |-> OrElse(parsedResult, "timeTaken", Num(0)),
     completeRequests |-> OrElse(parsedResult, "completeRequests", Num(0)),
     failedRequests |-> OrElse(parsedResult, "failedRequests", Num(0)),
     totalTransferred |-> OrElse(parsedResult, "totalTransferred", Num(0)),
     htmlTransferred |-> OrElse(parsedResult, "htmlTransferred", Num(0)),
     requestsPerSecond |-> OrElse(parsedResult, "requestsPerSecond", Num(0)),
     timePerRequest |-> OrElse(parsedResult, "timePerRequest", Num(0)),
     timePerRequestConcurrent |-> OrElse(parsedResult, "timePerRequestConcurrent", Num(0)),
     transferRate |-> OrElse(parsedResult, "transferRate", Num(0))]

\* The captured outputs, as the labelled lines in them: up to MaxLabels of
\* the labels, each with one of the texts.
LabelledOutputs ==
    UNION {[L -> LabelTexts] : L \in {M \in SUBSET (IntLabels \cup WordLabels) :
                                        Cardinality(M) <= MaxLabels}}

\* A process closed with code 0 and this captured stdout.
ResultInit ==
    /\ call \in {[fn |-> "pending", config |-> Config(ValidUrl, 2, 2, "GET", ""),
                   input |-> o, result |-> <<>>] : o \in LabelledOutputs}
    /\ Quiet

\* The close handler parses the output and assembles the result.
ResultAssemble ==
    /\ call.fn = "pending"
    /\ call' = [call EXCEPT !.fn = "result",
                            !.result = AssembleResult(call.config, ParseLabels(call.input))]
    /\ UNCHANGED <<sessions, nextId, activeProcesses, stoppedByUser, runs, pushed,
                   callbacks, websocketClients, connections, now, validation>>

ResultNext == ResultAssemble

ResultSpec == ResultInit /\ [][ResultNext]_vars

\* ------------------------------------------------------- the log buffer alone

\* One session is created.
LogCreate ==
    /\ nextId = 1
    /\ CreateSession(Config(ValidUrl, 2, 1, "GET", ""))

\* A caller appends one more entry to the session's log; the entry's message is
\* its number in the order of the calls (its timestamp).
LogAppend(s) ==
    /\ s \in DOMAIN sessions
    /\ Len(pushed[s]) < MaxAppends
    /\ AddLogToSession(s, "info", Len(pushed[s]) + 1)
    /\ UNCHANGED <<nextId, activeProcesses, stoppedByUser, runs, callbacks, serverVars>>

LogNext ==
    \/ LogCreate
    \/ \E s \in SessionIds : LogAppend(s)

\* The session store under a stream of addLogToSession calls.
LogSpec == Init /\ [][LogNext]_vars

\* ------------------------------------------------------------------ claims

AllRuns == {<<s, i>> \in SessionIds \X RunIds : i <= Len(runs[s])}

RunOf(p) == runs[p[1]][p[2]]

\* The handle of run p is in the live-handle map.
HasHandle(p) == p[1] \in DOMAIN activeProcesses /\ activeProcesses[p[1]] = p[2]

TerminalTypes == {"test_complete", "test_stopped", "test_error"}

StopHandlerLog == LogEntry("info", "(check mark) Test stopped by user")

\* The entries of seq after the first occurrence of e (all of seq if there is none).
After(seq, e) ==
    LET hits == {k \in 1..Len(seq) : seq[k] = e}
    IN  IF hits = {} THEN seq
        ELSE SubSeq(seq, (CHOOSE k \in hits : \A j \in hits : k <= j) + 1, Len(seq))

StopDone(s) == \E k \in 1..Len(pushed[s]) : pushed[s][k].type = "test_stopped"

\* C1: for every session id there is at most one run, so at most one process
\* spawned for it is alive; the handle the map holds for the id is that run's,
\* whose 'close' is still to come, and a live process without a handle is one
\* stopTest has killed.
C1_SingleProcessPerSession ==
    \A s \in SessionIds :
        /\ Len(runs[s]) <= 1
        /\ Cardinality({i \in 1..Len(runs[s]) : runs[s][i].pc = "alive"}) <= 1
        /\ s \in DOMAIN activeProcesses =>
              /\ activeProcesses[s] \in 1..Len(runs[s])
              /\ runs[s][activeProcesses[s]].pc \in {"alive", "exited"}
        /\ \A i \in 1..Len(runs[s]) :
              runs[s][i].pc = "alive" => HasHandle(<<s, i>>) \/ runs[s][i].killed

\* One session is running with its live process while another has finished.
C1_Witness ==
    \E s, t \in DOMAIN sessions :
        /\ sessions[s].status = "running" /\ HasHandle(<<s, 1>>) /\ runs[s][1].pc = "alive"
        /\ sessions[t].status = "completed" /\ Len(runs[t]) = 1

\* C2: once stopTest has found the live process of a session, nothing more is
\* passed to the log sink and nothing more is appended to the session's log
\* buffer (after the stop handler's own entry).
C2_NoLogAfterStop ==
    \A p \in AllRuns :
        RunOf(p).stopAt >= 0 /\ RunOf(p).stopAlive =>
            /\ Len(RunOf(p).sunk) = RunOf(p).stopAt
            /\ p[1] \in DOMAIN sessions => After(sessions[p[1]].logs, StopHandlerLog) = <<>>

\* The log entries appended for session s so far, in order: addLogToSession
\* hands each entry it appends to broadcastToSession.
Appended(s) ==
    LET logsSent == SelectSeq(pushed[s], LAMBDA m : m.type = "log")
    IN  [k \in 1..Len(logsSent) |-> LogEntry(logsSent[k].level, logsSent[k].message)]

\* The last n entries of seq (all of it if it is shorter).
LastN(seq, n) == IF Len(seq) <= n THEN seq ELSE SubSeq(seq, Len(seq) - n + 1, Len(seq))

\* C11: a session's log buffer holds at most MAX_LOGS_PER_SESSION entries, and
\* they are the most recently appended entries in the order they were appended.
C11_LogBufferKeepsNewest ==
    \A s \in DOMAIN sessions :
        /\ Len(sessions[s].logs) <= MAX_LOGS_PER_SESSION
        /\ sessions[s].logs = LastN(Appended(s), MAX_LOGS_PER_SESSION)

\* Two entries more than the cap were appended: the two oldest are gone.
C11_Witness ==
    \E s \in DOMAIN sessions :
        /\ Len(Appended(s)) = MAX_LOGS_PER_SESSION + 2
        /\ Len(sessions[s].logs) = MAX_LOGS_PER_SESSION
        /\ sessions[s].logs[1].message = 3

\* The place in pushed[s] of the last snapshot sent to connection c (0: none).
LastSnapshot(s, c) ==
    LET at == {k \in 1..Len(pushed[s]) :
                  pushed[s][k].type = "session_state" /\ pushed[s][k].to = c}
    IN  IF at = {} THEN 0 ELSE CHOOSE k \in at : \A j \in at : j <= k

\* The log entries among the messages of session s after place k.
LogsSentAfter(s, k) ==
    SelectSeq(SubSeq(pushed[s], k + 1, Len(pushed[s])), LAMBDA m : m.type = "log")

\* The log entries connection c received for session s after place k.
LogsReceivedAfter(s, c, k) ==
    LET got == SelectSeq(LogsSentAfter(s, k), LAMBDA m : m.to = c)
    IN  [i \in 1..Len(got) |-> LogEntry(got[i].level, got[i].message)]

\* Connection c is the open subscriber of the existing session s.
Subscribed(s, c) ==
    /\ s \in DOMAIN sessions
    /\ s \in DOMAIN websocketClients /\ websocketClients[s] = c
    /\ connections[c] = "open"

\* C12: the open subscriber of an existing session has received a snapshot; the
\* log list of its last snapshot followed by the log entries it received since
\* is the session's log buffer (up to the cap), and every log entry sent for the
\* session since that snapshot went to it: none is missing, none comes twice.
C12_SnapshotThenStream ==
    \A s \in SessionIds : \A c \in ConnectionIds :
        Subscribed(s, c) =>
            LET k == LastSnapshot(s, c)
            IN  /\ k > 0
                /\ \A i \in 1..Len(LogsSentAfter(s, k)) : LogsSentAfter(s, k)[i].to = c
                /\ sessions[s].logs =
                       LastN(pushed[s][k].message.logs \o LogsReceivedAfter(s, c, k),
                             MAX_LOGS_PER_SESSION)

\* A connection subscribed late, when the buffer held an entry, and an entry was
\* appended afterwards.
C12_Witness ==
    \E s \in SessionIds : \E c \in ConnectionIds :
        /\ Subscribed(s, c)
        /\ LastSnapshot(s, c) > 0
        /\ Len(pushed[s][LastSnapshot(s, c)].message.logs) >= 1
        /\ Len(LogsReceivedAfter(s, c, LastSnapshot(s, c))) >= 1

\* Every message sent for session s in this step went to the connection
\* websocketClients holds for s after the step, or to none.
SentToSubscriberOnly(s) ==
    \A k \in (Len(pushed[s]) + 1)..Len(pushed'[s]) :
        \/ pushed'[s][k].to = 0
        \/ s \in DOMAIN websocketClients' /\ pushed'[s][k].to = websocketClients'[s]

\* C13: websocketClients holds at most one connection per session id (it is a
\* map), and whatever is sent for a session goes to that connection only: after
\* a later subscription, never to the earlier subscriber.
C13_LaterSubscriberOnly ==
    [][\A s \in SessionIds : SentToSubscriberOnly(s)]_vars

\* A connection received a message of a session, a second connection subscribed
\* to the session and received a log entry, while the first is still open.
C13_Witness ==
    \E s \in SessionIds : \E j, k \in 1..Len(pushed[s]) :
        /\ j < k
        /\ pushed[s][j].to # 0 /\ pushed[s][k].to # 0
        /\ pushed[s][j].to # pushed[s][k].to
        /\ pushed[s][k].type = "log"
        /\ connections[pushed[s][j].to] = "open"

\* C3: the terminal event pushed for a session's run (test_complete,
\* test_stopped or test_error) is the last message pushed for it.
C3_TerminalEventIsLast ==
    \A s \in SessionIds : \A k \in 1..Len(pushed[s]) :
        pushed[s][k].type \in TerminalTypes => k = Len(pushed[s])

\* C4: a run that wrote a payload file and has ended (its process has closed)
\* has deleted the file, with exactly one unlink.
C4_PayloadFileDeletedOnce ==
    \A p \in AllRuns :
        RunOf(p).pc = "closed" /\ RunOf(p).dataFile # "none" =>
            RunOf(p).dataFile = "deleted" /\ RunOf(p).unlinks = 1

\* C5: when a run has failed (spawn failure, or a non-zero exit seen by the
\* close handler) and no stop was requested for the session, the session's
\* status is error.
C5_FailedRunSetsError ==
    \A p \in AllRuns :
        /\ RunOf(p).outcome = "rejected"
        /\ RunOf(p).pc = "closed"
        /\ ~StopDone(p[1])
        /\ p[1] \in DOMAIN sessions
        => sessions[p[1]].status = "error"

\* C6: a run whose live process stopTest has killed never resolves with a
\* result (only with null, and with null once closed), its output is never
\* parsed, and its session, while it exists, is in status stopped.
C6_StopResolvesCancelled ==
    \A p \in AllRuns :
        RunOf(p).stopAt >= 0 /\ RunOf(p).stopAlive =>
            /\ RunOf(p).outcome \in {"pending", "null"}
            /\ RunOf(p).pc = "closed" => RunOf(p).outcome = "null"
            /\ ~RunOf(p).parsed
            /\ p[1] \in DOMAIN sessions => sessions[p[1]].status = "stopped"

\* A process that had written output was killed and has closed.
C6_Witness ==
    \E p \in AllRuns :
        /\ RunOf(p).stopAt >= 0 /\ RunOf(p).stopAlive
        /\ RunOf(p).output >= 1
        /\ RunOf(p).pc = "closed" /\ RunOf(p).outcome = "null"
        /\ p[1] \in DOMAIN sessions /\ sessions[p[1]].status = "stopped"

\* A run that has reached its outcome has no handle in the live-handle map; its
\* handle is removed at most once, exactly once when its process has closed.
NoHandleAfterOutcome ==
    \A p \in AllRuns :
        /\ RunOf(p).outcome # "pending" => ~HasHandle(p)
        /\ RunOf(p).removals <= 1
        /\ RunOf(p).pc = "closed" => RunOf(p).removals = 1

\* The outcome a run has reached stays the outcome it has.
OutcomeIsFinal ==
    \A s \in SessionIds : \A i \in 1..Len(runs[s]) :
        runs[s][i].outcome # "pending" => runs'[s][i].outcome = runs[s][i].outcome

\* C7: once a run has reached an outcome (result, null or rejected) it never
\* reaches a second one and its handle is absent from the live-handle map; each
\* run's handle is removed from the map exactly once.
C7_TerminalRunHasNoHandle == []NoHandleAfterOutcome /\ [][OutcomeIsFinal]_vars

\* One run was stopped and has closed with null, another has closed with a
\* result: each had its handle removed once and none is left in the map.
C7_Witness ==
    \E p, q \in AllRuns :
        /\ RunOf(p).pc = "closed" /\ RunOf(p).outcome = "null" /\ RunOf(p).removals = 1
        /\ RunOf(q).pc = "closed" /\ RunOf(q).outcome = "result" /\ RunOf(q).removals = 1
        /\ activeProcesses = <<>>

\* C8: a stop request for a session whose test_stopped event has been pushed
\* changes nothing: no signal, no handle or flag change, no session change, no
\* further event.
C8_SecondStopIsNoOp ==
    [][\A s \in SessionIds : StopSession(s) /\ StopDone(s) => UNCHANGED vars]_vars

\* A first stop has just killed the live process (it has not exited yet), so a
\* second stop arrives in quick succession.
C8_Witness ==
    \E s \in DOMAIN sessions :
        /\ StopDone(s)
        /\ Len(runs[s]) = 1 /\ runs[s][1].pc = "alive" /\ runs[s][1].kills = 1

\* C9: a stop request for a session without a handle in the live-handle map
\* finds no process and leaves the map, the user-cancelled set and the runs
\* alone; of the sessions only the requested one may change, and only by what
\* the handler applies to a running session (status stopped, one log entry).
C9_StopWithoutProcess ==
    [][\A s \in SessionIds :
          StopSession(s) /\ s \notin DOMAIN activeProcesses =>
              /\ ~StopTestFound(s)
              /\ activeProcesses' = activeProcesses
              /\ stoppedByUser' = stoppedByUser
              /\ runs' = runs
              /\ DOMAIN sessions' = DOMAIN sessions
              /\ \A t \in DOMAIN sessions \ {s} : sessions'[t] = sessions[t]
              /\ sessions'[s].result = sessions[s].result
              /\ sessions[s].status # "running" => sessions'[s] = sessions[s]]_vars

\* A running session without a handle was stopped: the handler answered
\* "Process already finished".
C9_Witness ==
    \E s \in DOMAIN sessions :
        /\ sessions[s].status = "stopped"
        /\ sessions[s].result = NoResult
        /\ \E k \in 1..Len(sessions[s].logs) :
              sessions[s].logs[k] = LogEntry("info", "Process already finished")
        /\ s \notin DOMAIN activeProcesses /\ s \notin stoppedByUser

\* The validation constraints, as the spec lists them.
Violates(config) ==
    \/ ~UrlParses(config.url)
    \/ config.requests <= 0
    \/ config.concurrency <= 0
    \/ config.concurrency > config.requests
    \/ config.method \in {"POST", "PUT"} /\ config.dataBody = ""

C14_StartFailsOrRuns ==
    [][\A s \in SessionIds : \A ok \in BOOLEAN :
          StartSession(s, ok) =>
              IF s \notin DOMAIN sessions \/ sessions[s].status # "preparing"
              THEN UNCHANGED vars
              ELSE /\ s \in DOMAIN sessions'
                   /\ sessions'[s].status = "running"
                   /\ Len(runs'[s]) = Len(runs[s]) + 1]_vars

\* One session was started with a config validation rejects and is running
\* all the same; another has been stopped, so a start request for it fails.
C14_Witness ==
    \E s, t \in DOMAIN sessions :
        /\ sessions[s].status = "running"
        /\ Len(runs[s]) = 1 /\ runs[s][1].pc = "invalid"
        /\ sessions[t].status = "stopped"

\* C15: of the outcomes of a stop request only "stopped" (stopTest found a
\* handle) changes the session or pushes an event.
C15_OnlyStoppedOutcomeChanges ==
    [][\A s \in SessionIds :
          StopSession(s) /\ ~StopTestFound(s) =>
              sessions' = sessions /\ pushed' = pushed]_vars

\* What session t has in the runner, the store and the broadcaster is the same
\* after the step.
SessionUntouched(t) ==
    /\ (t \in DOMAIN activeProcesses') = (t \in DOMAIN activeProcesses)
    /\ t \in DOMAIN activeProcesses => activeProcesses'[t] = activeProcesses[t]
    /\ (t \in stoppedByUser') = (t \in stoppedByUser)
    /\ (t \in DOMAIN sessions') = (t \in DOMAIN sessions)
    /\ t \in DOMAIN sessions => sessions'[t] = sessions[t]
    /\ runs'[t] = runs[t]
    /\ pushed'[t] = pushed[t]
    /\ (t \in DOMAIN websocketClients') = (t \in DOMAIN websocketClients)
    /\ t \in DOMAIN websocketClients => websocketClients'[t] = websocketClients[t]

\* The callbacks of a run return early only for a session stopTest has marked
\* for a handle of its own.
SilencedOnlyByOwnStop ==
    \A t \in SessionIds :
        /\ t \in stoppedByUser => \E i \in 1..Len(runs[t]) : runs[t][i].stopAt >= 0
        /\ \A i \in 1..Len(runs[t]) : runs[t][i].suppressed > 0 => runs[t][i].stopAt >= 0

\* C17: a stop request for one session leaves every other session's handle,
\* user-cancelled flag, status, logs, result, run and subscriber as they were,
\* so the other runs go on as they would have; no run is silenced by the stop
\* of another session.
C17_StopLeavesOthersAlone ==
    /\ []SilencedOnlyByOwnStop
    /\ [][\A s \in SessionIds :
             StopSession(s) => \A t \in SessionIds \ {s} : SessionUntouched(t)]_vars

\* One session's live process was stopped; the other session's run has logged
\* a line, closed with a result and completed.
C17_Witness ==
    \E s, t \in DOMAIN sessions :
        /\ s # t
        /\ Len(runs[s]) = 1 /\ runs[s][1].stopAt >= 0 /\ runs[s][1].stopAlive
        /\ Len(runs[t]) = 1 /\ runs[t][1].outcome = "result" /\ runs[t][1].output >= 1
        /\ sessions[t].status = "completed"

\* The removal rule as the spec states it: older than 24 hours, or completed or
\* error and older than 1 hour.
SweepDue(s) ==
    LET age == now - sessions[s].startTime
    IN  \/ age > 24 * 60 * 60 * 1000
        \/ sessions[s].status \in {"completed", "error"} /\ age > 60 * 60 * 1000

\* C16: a sweep removes exactly the sessions the rule names; every other
\* session and its subscriber entry stay as they are, and with a removed
\* session its subscriber entry goes.
C16_SweepRemovesExactlyExpired ==
    [][CleanupOldSessions =>
          \A s \in DOMAIN sessions :
              /\ (s \notin DOMAIN sessions') <=> SweepDue(s)
              /\ s \in DOMAIN sessions' =>
                    /\ sessions'[s] = sessions[s]
                    /\ (s \in DOMAIN websocketClients') = (s \in DOMAIN websocketClients)
                    /\ s \in DOMAIN websocketClients =>
                          websocketClients'[s] = websocketClients[s]
              /\ s \notin DOMAIN sessions' => s \notin DOMAIN websocketClients']_vars

\* A sweep has removed a session and kept a completed one that is exactly one
\* hour old, with its subscriber.
C16_Witness ==
    \E s \in DOMAIN sessions : \E t \in SessionIds \ DOMAIN sessions :
        /\ sessions[s].status = "completed"
        /\ now - sessions[s].startTime = StaleCompletedAge
        /\ s \in DOMAIN websocketClients
        /\ t \notin DOMAIN websocketClients

\* The constraints on a config, as the spec lists them.
UrlOk(config) == config.url # "" /\ UrlParses(config.url)

RequestsOk(config) == "requests" \in DOMAIN config /\ config.requests > 0

ConcurrencyOk(config) ==
    /\ "concurrency" \in DOMAIN config /\ config.concurrency > 0
    /\ "requests" \in DOMAIN config => config.concurrency <= config.requests

BodyOk(config) == config.method \in {"POST", "PUT"} => config.dataBody # ""

\* C18: validation answers with an empty error list exactly for a config that
\* meets every constraint.
C18_ValidAcceptedExactly ==
    validation.by # "none" =>
        ((validation.errors = <<>>) <=>
            /\ UrlOk(validation.config)
            /\ RequestsOk(validation.config)
            /\ ConcurrencyOk(validation.config)
            /\ BodyOk(validation.config))

\* The errors about concurrency exceeding requests, of the runner and of the endpoint.
ExceedsErrors ==
    {"Level concurrency must be less than or equal to requests",
     "Concurrency must be less than or equal to requests"}

\* C19: for a config whose concurrency is above its request count, validation
\* fails and exactly one of its errors is about concurrency exceeding requests.
C19_OneExceedsError ==
    validation.by # "none" /\ ConcurrencyAboveRequests(validation.config) =>
        Cardinality({k \in 1..Len(validation.errors) :
                        validation.errors[k] \in ExceedsErrors}) = 1

\* A config with a concurrency above its request count that breaks other
\* constraints too has been validated: several errors came back.
C19_Witness ==
    /\ validation.by # "none"
    /\ ConcurrencyAboveRequests(validation.config)
    /\ ~UrlOk(validation.config)
    /\ Len(validation.errors) >= 3

\* C20: for a POST config, validation yields the error naming the body
\* requirement exactly when the body is empty.
C20_PostBodyError ==
    validation.by # "none" /\ validation.config.method = "POST" =>
        ((validation.config.dataBody = "") <=>
            \E k \in 1..Len(validation.errors) :
                validation.errors[k] = "POST method requires data in dataBody")

\* The histogram fields of a result.
HistogramFields ==
    {"statusCodes", "successfulRequests", "clientErrors", "serverErrors", "redirects",
     "errorSummary"}

\* The lines of the output whose (first) status code is in `codes`.
LinesWith(output, codes) ==
    Cardinality({k \in 1..Len(output) : output[k] # <<>> /\ output[k][1] \in codes})

\* C21: the histogram fields are in the result exactly when a status code
\* occurs in the captured stdout (absent, not zero, otherwise); when present,
\* the histogram counts each code and all four class counts are there, 0 for a
\* class without occurrences; 200, 200, 404 gives {200:2, 404:1},
\* successful 2, client errors 1.
C21_HistogramFieldsOnlyWithCodes ==
    call.fn = "parseResults" =>
        LET output == call.input
            result == call.result
            found == \E k \in 1..Len(output) : output[k] # <<>>
        IN  /\ IF found THEN HistogramFields \subseteq DOMAIN result
                        ELSE HistogramFields \cap DOMAIN result = {}
            /\ found =>
                /\ DOMAIN result.statusCodes = {c \in StatusCodes : LinesWith(output, {c}) > 0}
                /\ \A c \in DOMAIN result.statusCodes :
                       result.statusCodes[c] = LinesWith(output, {c})
                /\ result.successfulRequests = LinesWith(output, 200..299)
                /\ result.redirects = LinesWith(output, 300..399)
                /\ result.clientErrors = LinesWith(output, 400..499)
                /\ result.serverErrors = LinesWith(output, 500..599)
            /\ output = <<(<<200>>), (<<200>>), (<<404>>)>> =>
                /\ result.statusCodes = (200 :> 2) @@ (404 :> 1)
                /\ result.successfulRequests = 2
                /\ result.clientErrors = 1

\* The transcript 200, 200, 404 has been parsed.
C21_Witness ==
    /\ call.fn = "parseResults"
    /\ call.input = <<(<<200>>), (<<200>>), (<<404>>)>>
    /\ "statusCodes" \in DOMAIN call.result
    /\ call.result.serverErrors = 0

\* The number a text of digits stands for.
ParseInt(text) == CHOOSE n \in 0..99 : NumberToString(n) = text

\* The argument after the first occurrence of a flag.
ArgOf(args, flag) ==
    args[(CHOOSE k \in 1..Len(args) :
             args[k] = Str(flag) /\ \A j \in 1..(k - 1) : args[j] # Str(flag)) + 1]

\* C22: whatever verbosity the config asks for (none, below 3, 3, above 3),
\* the argument of -v is at least 3 and is max(requested, 3).
C22_VerbosityAtLeastThree ==
    call.fn = "buildCommand" =>
        LET v == ParseInt(ArgOf(call.result, "-v"))
            config == call.input
        IN  /\ v >= 3
            /\ "verbosity" \notin DOMAIN config => v = 3
            /\ "verbosity" \in DOMAIN config =>
                  v = IF config.verbosity >= 3 THEN config.verbosity ELSE 3

\* A command was built for a config that asks for verbosity 2.
C22_Witness ==
    /\ call.fn = "buildCommand"
    /\ "verbosity" \in DOMAIN call.input
    /\ call.input.verbosity = 2
    /\ ArgOf(call.result, "-v") = <<"3">>

\* The option flags of `ab` in the order the spec fixes; -p and -u share a place.
FlagOrder ==
    <<{"-n"}, {"-c"}, {"-t"}, {"-k"}, {"-m"}, {"-s"}, {"-v"}, {"-l"}, {"-H"}, {"-C"},
      {"-A"}, {"-X"}, {"-p", "-u"}, {"-T"}>>

IsFlag(arg) == Len(arg) = 1 /\ \E k \in 1..Len(FlagOrder) : arg[1] \in FlagOrder[k]

Rank(arg) == CHOOSE k \in 1..Len(FlagOrder) : arg[1] \in FlagOrder[k]

\* The flags of an argument vector, in order.
OptionsOf(args) == SelectSeq(args, IsFlag)

\* How many times a flag occurs.
Occurrences(args, flag) == Cardinality({k \in 1..Len(args) : args[k] = Str(flag)})

\* The options a config sets, with the number of flags each gives.
ExpectedOccurrences(config, flag) ==
    LET set(f) == f \in DOMAIN config
        payload == config.dataBody # ""
    IN  CASE flag \in {"-n", "-c", "-v"} -> 1
          [] flag = "-t" -> IF set("timelimit") THEN 1 ELSE 0
          [] flag = "-k" -> IF set("keepalive") THEN 1 ELSE 0
          [] flag = "-m" -> IF config.method # "GET" THEN 1 ELSE 0
          [] flag = "-s" -> IF set("timeout") THEN 1 ELSE 0
          [] flag = "-l" -> IF set("acceptVaryingLength") THEN 1 ELSE 0
          [] flag = "-H" -> IF set("headers") THEN Len(config.headers) ELSE 0
          [] flag = "-C" -> IF set("cookies") THEN Len(config.cookies) ELSE 0
          [] flag = "-A" -> IF set("authUsername") /\ set("authPassword") THEN 1 ELSE 0
          [] flag = "-X" -> IF set("proxyUrl") THEN 1 ELSE 0
          [] flag = "-p" -> IF payload /\ config.method # "PUT" THEN 1 ELSE 0
          [] flag = "-u" -> IF payload /\ config.method = "PUT" THEN 1 ELSE 0
          [] flag = "-T" -> IF payload /\ set("contentType") THEN 1 ELSE 0

\* The flags come in the fixed order, only -H and -C repeat, each option the
\* config sets is there, and the URL is last.
WellOrdered(config, args) ==
    LET options == OptionsOf(args)
    IN  /\ args[1] = Str("ab")
        /\ \A i, j \in 1..Len(options) :
              i < j => \/ Rank(options[i]) < Rank(options[j])
                       \/ options[i] = options[j] /\ options[i][1] \in {"-H", "-C"}
        /\ \A k \in 1..Len(FlagOrder) : \A flag \in FlagOrder[k] :
              Occurrences(args, flag) = ExpectedOccurrences(config, flag)
        /\ args[Len(args)] = Str(config.url)

\* C23: the argument vector of a valid config has its options in the fixed
\* order count, concurrency, time limit, keep-alive, method, timeout,
\* verbosity, varying length, headers, cookies, auth, proxy, payload file with
\* content type, and the URL last; a second build for the same config and
\* session gives the same option sequence.
C23_ArgumentOrderFixed ==
    /\ call.fn \in {"buildCommand", "buildCommand twice"} =>
          WellOrdered(call.input, call.result)
    /\ call.fn = "buildCommand twice" =>
          /\ WellOrdered(call.input, call.again)
          /\ OptionsOf(call.again) = OptionsOf(call.result)

\* A POST config with every option set has been built twice; the payload file
\* got a new name the second time.
C23_Witness ==
    /\ call.fn = "buildCommand twice"
    /\ call.input.method = "POST"
    /\ {"timelimit", "keepalive", "timeout", "verbosity", "acceptVaryingLength", "headers",
         "cookies", "authUsername", "authPassword", "proxyUrl", "contentType"}
            \subseteq DOMAIN call.input
    /\ Len(call.input.headers) = 2
    /\ call.again # call.result

\* Reading a header flag's argument back: the name is what stands before the
\* first ": ", the value what follows it.
ParseHeader(arg) ==
    LET k == CHOOSE i \in 1..Len(arg) : arg[i] = ": " /\ \A j \in 1..(i - 1) : arg[j] # ": "
    IN  <<SubSeq(arg, 1, k - 1), SubSeq(arg, k + 1, Len(arg))>>

\* The headers read back from an argument vector.
HeadersOf(args) ==
    {ParseHeader(args[k + 1]) : k \in {i \in 1..(Len(args) - 1) : args[i] = Str("-H")}}

\* C24: the header flags of the built argument vector, read back, give
\* exactly the name/value pairs of the config's header map, one flag per header.
C24_HeadersRoundTrip ==
    call.fn = "buildCommand" =>
        /\ HeadersOf(call.result) = {call.input.headers[k] : k \in 1..Len(call.input.headers)}
        /\ Occurrences(call.result, "-H") = Len(call.input.headers)

\* A step in which stopTest sends its kill signal to a run leaves the
\* session's flag set.
FlagSetWithKill ==
    \A s \in SessionIds : \A r \in 1..Len(runs[s]) :
        runs'[s][r].kills > runs[s][r].kills => s \in stoppedByUser'

\* A stream or timer callback leaves every run of a flagged session with the
\* text it had captured and the entries it had passed on, and the session with
\* the pushes and logs it had.
NothingThroughWhileFlagged ==
    callbacks' # callbacks =>
        \A s \in stoppedByUser :
            /\ \A r \in 1..Len(runs[s]) :
                  /\ runs'[s][r].output = runs[s][r].output
                  /\ runs'[s][r].errorOutput = runs[s][r].errorOutput
                  /\ runs'[s][r].sunk = runs[s][r].sunk
            /\ pushed'[s] = pushed[s]
            /\ s \in DOMAIN sessions => sessions'[s] = sessions[s]

\* C25: stop sets the session's flag before it sends the kill signal, and a
\* stdout-line, stderr or heartbeat callback that runs while the flag is set
\* emits no event and adds nothing to the captured stdout / stderr text.
C25_FlagBeforeKillSilencesCallbacks ==
    [][FlagSetWithKill /\ NothingThroughWhileFlagged]_vars

\* A callback of a killed run has run while the flag was set, and returned at once.
C25_Witness ==
    \E s \in SessionIds : \E r \in 1..Len(runs[s]) :
        /\ runs[s][r].kills = 1
        /\ runs[s][r].suppressed = 1
        /\ s \in stoppedByUser

\* A stopped session has no process that runs on without having been killed.
StoppedHasNoProcess ==
    \A s \in DOMAIN sessions :
        sessions[s].status = "stopped" =>
            \A r \in 1..Len(runs[s]) : ~(runs[s][r].pc = "alive" /\ ~runs[s][r].killed)

\* A stopped session does not become completed.
StoppedNeverCompletes ==
    \A s \in DOMAIN sessions :
        sessions[s].status = "stopped" /\ s \in DOMAIN sessions' =>
            sessions'[s].status # "completed"

\* C26: once a session is stopped, no process of it is alive or gets spawned,
\* and its status never becomes completed, also when the stop came while the
\* command and payload file were still being built.
C26_StoppedStaysStopped == []StoppedHasNoProcess /\ [][StoppedNeverCompletes]_vars

\* The places in what was pushed for s of the messages of the given types.
PushedAt(s, types) == {k \in 1..Len(pushed[s]) : pushed[s][k].type \in types}

\* C27: for a started run, test_start is pushed before any log of the run, and
\* exactly one of test_complete, test_stopped, test_error is pushed for it:
\* one once the run has ended, and never two.
C27_OneTerminalEventPerRun ==
    \A p \in AllRuns :
        LET s == p[1]
        IN  /\ PushedAt(s, {"test_start"}) # {}
            /\ \A k \in PushedAt(s, {"log"}) : \E j \in PushedAt(s, {"test_start"}) : j < k
            /\ Cardinality(PushedAt(s, TerminalTypes)) <= 1
            /\ RunOf(p).outcome # "pending" => Cardinality(PushedAt(s, TerminalTypes)) = 1

\* C28: a session that is running eventually has a terminal status
\* (completed, stopped or error), given that its process ends or fails to
\* spawn; it is not left running once its run has ended or was rejected.
C28_RunningReachesTerminal ==
    \A s \in SessionIds :
        (s \in DOMAIN sessions /\ sessions[s].status = "running")
            ~> (s \notin DOMAIN sessions
                \/ sessions[s].status \in {"completed", "stopped", "error"})

\* C29: every handle in the live-handle map is of a session in the store, and
\* a session that is gone (deleted or swept) has no process alive.
C29_HandlesBelongToSessions ==
    /\ \A s \in DOMAIN activeProcesses : s \in DOMAIN sessions
    /\ \A p \in AllRuns : RunOf(p).pc = "alive" /\ ~RunOf(p).killed => p[1] \in DOMAIN sessions

\* C30: the validate endpoint and the runner accept the same configs: what the
\* endpoint reports valid the runner accepts, and what the runner rejects the
\* endpoint reports invalid.
C30_ValidatorsAgree ==
    /\ validation.by = "endpoint" /\ validation.errors = <<>> =>
          ValidateConfig(validation.config) = <<>>
    /\ validation.by = "runner" /\ validation.errors # <<>> =>
          ValidateConfigRequest(validation.config) # <<>>

\* The places in the entries passed to onLog of those caused by line i.
EventsOf(i) == {k \in 1..Len(call.sunk) : call.sunk[k].line = i}

\* Line i was delivered while the session was not marked stopped, and is of this kind.
Handled(i, kind) == call.lines[i].handled /\ call.lines[i].line.kind = kind

\* The parsed JSON line pending when line i arrives: the latest one before i
\* with no warning since (0: none).
PendingAt(i) ==
    LET since == {j \in 1..(i - 1) : Handled(j, "json") \/ Handled(j, "warning")}
        last == IF since = {} THEN 0 ELSE CHOOSE j \in since : \A k \in since : k <= j
    IN  IF last # 0 /\ Handled(last, "json") THEN last ELSE 0

\* The code of a structured response: its statusCode, or else its code.
StructuredCode(line) == IF line.statusCode # 0 THEN line.statusCode ELSE line.code

\* C31: a non-2xx warning that comes while a JSON response is pending gives
\* one combined event, at error level if the response's code is 400 or more,
\* else at debug level and only at verbosity 3 or more, and clears the buffer
\* in every case; a warning with nothing pending gives an error event; the
\* buffer holds at most the latest parsed JSON line; a parsed JSON line gives
\* no event by itself.
C31_WarningCombinesPendingResponse ==
    call.fn = "stdout" =>
        /\ \A i \in 1..Len(call.lines) :
              LET events == EventsOf(i)
                  pending == PendingAt(i)
              IN  /\ Handled(i, "json") => events = {}
                  /\ Handled(i, "warning") =>
                        /\ Cardinality(events) <= 1
                        /\ \A k \in events :
                              /\ call.sunk[k].message.statusCode = call.lines[i].line.statusCode
                              /\ call.sunk[k].message.response =
                                    IF pending = 0 THEN <<>>
                                    ELSE <<PendingJsonResponse(call.lines[pending].line)>>
                        /\ IF pending = 0
                           THEN \E k \in events : call.sunk[k].level = "error"
                           ELSE IF StructuredCode(call.lines[pending].line) >= 400
                           THEN \E k \in events : call.sunk[k].level = "error"
                           ELSE IF call.verbosity >= 3
                           THEN \E k \in events : call.sunk[k].level = "debug"
                           ELSE events = {}
        /\ LET pending == PendingAt(Len(call.lines) + 1)
           IN  call.pendingJsonResponse =
                   IF pending = 0 THEN <<>>
                   ELSE <<[code |-> IF call.lines[pending].line.code # 0
                                    THEN call.lines[pending].line.code
                                    ELSE call.lines[pending].line.statusCode,
                           statusCode |-> StructuredCode(call.lines[pending].line)]>>

\* A JSON response with a code below 400 was pending when a warning came, at a
\* verbosity below 3: no event, and the buffer is empty again.
C31_Witness ==
    /\ call.fn = "stdout"
    /\ call.verbosity < 3
    /\ Len(call.lines) = 2
    /\ Handled(1, "json") /\ StructuredCode(call.lines[1].line) = 200
    /\ Handled(2, "warning")
    /\ call.sunk = <<>>
    /\ call.pendingJsonResponse = <<>>

\* The heartbeat entries among those a run has passed to onLog.
Heartbeats(run) ==
    Cardinality({k \in 1..Len(run.sunk) : run.sunk[k] = LogEntry("info", "Test is running...")})

\* A step that emits a heartbeat for a run finds its process not yet exited
\* and no stop requested for its session.
HeartbeatOnlyWhileRunning ==
    \A s \in SessionIds : \A r \in 1..Len(runs[s]) :
        Heartbeats(runs'[s][r]) > Heartbeats(runs[s][r]) =>
            runs[s][r].pc = "alive" /\ ~StopDone(s)

\* A run whose close or spawn-error handling is done emits no heartbeat.
NoHeartbeatAfterEnd ==
    \A s \in SessionIds : \A r \in 1..Len(runs[s]) :
        runs[s][r].pc \in {"closed", "failed"} =>
            Heartbeats(runs'[s][r]) = Heartbeats(runs[s][r])

\* C32: a heartbeat is emitted only while the process has not exited and no
\* stop was requested for the session, and never after the run's exit or
\* spawn-error handling has run.
C32_HeartbeatOnlyWhileRunning ==
    [][HeartbeatOnlyWhileRunning /\ NoHeartbeatAfterEnd]_vars

\* The number a labelled line gives, if it gives one.
Readable(labelled, f) == f \in DOMAIN labelled /\ labelled[f].kind = "number"

\* C33: in the result of a successful run, every numeric field whose line is
\* missing from the output, or whose value cannot be parsed, is 0.
C33_UnsetNumericFieldsAreZero ==
    call.fn = "result" =>
        \A f \in IntLabels \cup WordLabels :
            IF Readable(call.input, f)
            THEN f \in DOMAIN call.result /\ call.result[f] = Num(call.input[f].value)
            ELSE f \in DOMAIN call.result /\ call.result[f] = Num(0)

\* C34: in a result with a histogram, the four class counts add up to the sum
\* of the histogram's counts, and the error summary has exactly one entry,
\* with the code's count, for each code of the histogram outside 200..299.
C34_ClassCountsCoverHistogram ==
    call.fn = "parseResults" /\ "statusCodes" \in DOMAIN call.result =>
        LET result == call.result
            codes == DOMAIN result.statusCodes
        IN  /\ result.successfulRequests + result.redirects + result.clientErrors
                  + result.serverErrors = SumCounts(result.statusCodes, codes)
            /\ \A c \in codes \ (200..299) :
                  Cardinality({k \in 1..Len(result.errorSummary) :
                                  result.errorSummary[k].statusCode = c}) = 1
            /\ \A k \in 1..Len(result.errorSummary) :
                  /\ result.errorSummary[k].statusCode \in codes \ (200..299)
                  /\ result.errorSummary[k].count =
                        result.statusCodes[result.errorSummary[k].statusCode]

\* Connection c ends in this step: its close handler runs, or its disconnect
\* message is handled.
Ends(c) == connections[c] \in {"open", "closing"} /\ connections'[c] # connections[c]

\* The subscriptions of the other connections are as before the step, and so
\* are the other connections.
OthersKeepSubscriptions(c) ==
    /\ \A s \in DOMAIN websocketClients :
          websocketClients[s] # c =>
              s \in DOMAIN websocketClients' /\ websocketClients'[s] = websocketClients[s]
    /\ \A b \in ConnectionIds \ {c} : connections'[b] = connections[b]

\* Every event pushed for session s in this step went to the open connection
\* that was subscribed to s before the step.
SubscriberReceives(s) ==
    \A k \in (Len(pushed[s]) + 1)..Len(pushed'[s]) :
        /\ pushed'[s][k].type # "session_state"
        /\ s \in DOMAIN websocketClients
        /\ connections[websocketClients[s]] = "open"
        => pushed'[s][k].to = websocketClients[s]

\* C35: a connection's close or disconnect removes only subscriptions that point
\* to it: a session whose subscription has passed to another connection stays
\* subscribed by that connection, which goes on receiving the session's events.
C35_CloseRemovesOnlyOwnSubscriptions ==
    [][/\ \A c \in ConnectionIds : Ends(c) => OthersKeepSubscriptions(c)
       /\ \A s \in SessionIds : SubscriberReceives(s)]_vars

\* Connection a subscribed to a session and was superseded by connection b; a
\* has ended, b is still the subscriber and the session's last event went to b.
C35_Witness ==
    \E s \in SessionIds : \E a, b \in ConnectionIds :
        /\ a # b
        /\ LastSnapshot(s, a) > 0
        /\ LastSnapshot(s, b) > LastSnapshot(s, a)
        /\ connections[a] \in {"closing", "closed"}
        /\ Subscribed(s, b)
        /\ Len(pushed[s]) > LastSnapshot(s, b)
        /\ pushed[s][Len(pushed[s])].to = b

====
